---------------------------- MODULE Spec2Model ----------------------------
(***************************************************************************)
(* A model of the curriculum parser of sis-scraper                         *)
(* (src/curriculum_parser.py): the text helpers, the units parser, the     *)
(* course-code extractor, the layout classifier, the two row extractors,   *)
(* the post-processing validator and the document loop of                  *)
(* parse_curriculum_pdf.                                                   *)
(*                                                                         *)
(* Text is modelled by TLA+ strings, which are sequences of characters:    *)
(* Len, \o, SubSeq, Head and Tail act on them character by character.      *)
(* A table cell is None or a str in the program; every use of a cell in    *)
(* the source tests its truthiness first (or passes it to clean_text /     *)
(* parse_units, which do), and None and "" are both falsy, so a cell is    *)
(* modelled by a string and None by "".                                    *)
(***************************************************************************)
EXTENDS Integers, Sequences, FiniteSets, TLC

----------------------------------------------------------------------------
(* Characters and the str methods the parser uses.                         *)

UpperChars == "ABCDEFGHIJKLMNOPQRSTUVWXYZ"
LowerChars == "abcdefghijklmnopqrstuvwxyz"
DigitChars == "0123456789"

\* the characters of s from index i to index j, clipped to s as a Python
\* slice is; "" when the range is empty
Sub(s, i, j) ==
    LET lo == IF i < 1 THEN 1 ELSE i
        hi == IF j > Len(s) THEN Len(s) ELSE j
    IN  IF lo > hi THEN "" ELSE SubSeq(s, lo, hi)

\* the character of s at index i, "" beyond its ends
Ch(s, i) == IF 1 <= i /\ i <= Len(s) THEN SubSeq(s, i, i) ELSE ""

CharSet(s) == {Ch(s, i) : i \in 1..Len(s)}

UpperSet == CharSet(UpperChars)
LowerSet == CharSet(LowerChars)
DigitSet == CharSet(DigitChars)
\* str.split() and \s: the whitespace characters of the modelled alphabet
SpaceSet == {" ", "\n", "\t"}

IsAlpha(c) == c \in UpperSet \/ c \in LowerSet
IsDigit(c) == c \in DigitSet
IsSpace(c) == c \in SpaceSet

IndexOf(c, s) == CHOOSE i \in 1..Len(s) : Ch(s, i) = c

LowerMap == [c \in UpperSet |-> Ch(LowerChars, IndexOf(c, UpperChars))]
UpperMap == [c \in LowerSet |-> Ch(UpperChars, IndexOf(c, LowerChars))]
DigitMap == [c \in DigitSet |-> IndexOf(c, DigitChars) - 1]

LowerChar(c) == IF c \in UpperSet THEN LowerMap[c] ELSE c
UpperChar(c) == IF c \in LowerSet THEN UpperMap[c] ELSE c

\* The character-wise maps below recurse on the two halves of the string,
\* which keeps the depth of the evaluation logarithmic in its length.
\* A value that several later steps of a function use is handed on as an
\* argument of an operator for the rest of the function, so that it is
\* computed once, as the local variable it models is.

RECURSIVE Lower(_)
\* str.lower()
Lower(s) ==
    IF Len(s) <= 1 THEN LowerChar(s)
    ELSE Lower(Sub(s, 1, Len(s) \div 2)) \o Lower(Sub(s, Len(s) \div 2 + 1, Len(s)))

RECURSIVE Upper(_)
\* str.upper()
Upper(s) ==
    IF Len(s) <= 1 THEN UpperChar(s)
    ELSE Upper(Sub(s, 1, Len(s) \div 2)) \o Upper(Sub(s, Len(s) \div 2 + 1, Len(s)))

\* sub in s
Contains(s, sub) ==
    \E i \in 1..(Len(s) - Len(sub) + 1) : Sub(s, i, i + Len(sub) - 1) = sub

RECURSIVE LStrip(_)
LStrip(s) == IF Len(s) > 0 /\ IsSpace(Head(s)) THEN LStrip(Tail(s)) ELSE s

RECURSIVE RStrip(_)
RStrip(s) ==
    IF Len(s) > 0 /\ IsSpace(Ch(s, Len(s)))
    THEN RStrip(Sub(s, 1, Len(s) - 1)) ELSE s

\* str.strip()
Strip(s) == RStrip(LStrip(s))

RECURSIVE TokLen(_)
\* the length of the leading run of non-whitespace characters
TokLen(s) ==
    IF Len(s) = 0 \/ IsSpace(Head(s)) THEN 0 ELSE 1 + TokLen(Tail(s))

RECURSIVE Split(_)
\* the first token of t, of length k, followed by the tokens of the rest
SplitAt(t, k) == <<Sub(t, 1, k)>> \o Split(Sub(t, k + 1, Len(t)))

\* the tokens of a string t that does not start with whitespace
SplitStripped(t) == IF Len(t) = 0 THEN <<>> ELSE SplitAt(t, TokLen(t))

\* str.split(): the whitespace-delimited tokens, none of them empty
Split(s) == SplitStripped(LStrip(s))

RECURSIVE Join(_, _)
\* sep.join(parts)
Join(sep, parts) ==
    IF Len(parts) = 0 THEN ""
    ELSE IF Len(parts) = 1 THEN parts[1]
    ELSE parts[1] \o sep \o Join(sep, Tail(parts))

\* the least and the greatest element of a non-empty set of integers
Min(S) == CHOOSE x \in S : \A y \in S : x <= y
Max(S) == CHOOSE x \in S : \A y \in S : y <= x

\* the least and the greatest index of a set of indices, or 0
FirstOf(at) == IF at = {} THEN 0 ELSE Min(at)
LastOf(at) == IF at = {} THEN 0 ELSE Max(at)

\* the last index of character c in s, or 0
RFindChar(s, c) == LastOf({i \in 1..Len(s) : Ch(s, i) = c})

RECURSIVE KeepDigitsDots(_)
\* re.sub(r"[^\d.]", "", s)
KeepDigitsDots(s) ==
    IF Len(s) <= 1 THEN (IF IsDigit(s) \/ s = "." THEN s ELSE "")
    ELSE KeepDigitsDots(Sub(s, 1, Len(s) \div 2))
         \o KeepDigitsDots(Sub(s, Len(s) \div 2 + 1, Len(s)))

RECURSIVE RemoveCommas(_)
\* s.replace(',', '')
RemoveCommas(s) ==
    IF Len(s) <= 1 THEN (IF s = "," THEN "" ELSE s)
    ELSE RemoveCommas(Sub(s, 1, Len(s) \div 2))
         \o RemoveCommas(Sub(s, Len(s) \div 2 + 1, Len(s)))

RECURSIVE LetterRun(_, _)
\* the number of consecutive [A-Za-z] characters of s from index i
LetterRun(s, i) ==
    IF i > Len(s) \/ ~IsAlpha(Ch(s, i)) THEN 0 ELSE 1 + LetterRun(s, i + 1)

RECURSIVE DigitRun(_, _)
\* the number of consecutive \d characters of s from index i
DigitRun(s, i) ==
    IF i > Len(s) \/ ~IsDigit(Ch(s, i)) THEN 0 ELSE 1 + DigitRun(s, i + 1)

----------------------------------------------------------------------------
(* Python values of the units field and float().                           *)
(*                                                                         *)
(* A finite float is the exact decimal n / 10^d with no trailing zero in   *)
(* its fraction (3.0 and 3.00 are the same value); float() maps distinct   *)
(* decimals of at most 15 significant digits to distinct doubles and keeps *)
(* their order, so on the short strings of this model the exact decimal    *)
(* compares as the double does.  -0.0 is 0.0 (they are == in Python).      *)
(* "_" (a digit separator of float()) is not in the modelled alphabet.     *)

PyFloat(n, d) == [t |-> "float", n |-> n, d |-> d, s |-> ""]
PyInf(sign)   == [t |-> "inf", n |-> sign, d |-> 0, s |-> ""]
PyNaN         == [t |-> "nan", n |-> 0, d |-> 0, s |-> ""]
PyStr(s)      == [t |-> "str", n |-> 0, d |-> 0, s |-> s]
\* float() raising ValueError
ValueError    == [t |-> "ValueError", n |-> 0, d |-> 0, s |-> ""]

RECURSIVE Pow10(_)
Pow10(k) == IF k = 0 THEN 1 ELSE 10 * Pow10(k - 1)

RECURSIVE Normal(_, _)
Normal(n, d) ==
    IF d > 0 /\ n % 10 = 0 THEN Normal(n \div 10, d - 1) ELSE PyFloat(n, d)

\* n * 10^e / 10^d
Scaled(n, d, e) == IF e >= d THEN PyFloat(n * Pow10(e - d), 0) ELSE Normal(n, d - e)

RECURSIVE DigitsVal(_)
\* the value of a string of decimal digits ("" is 0)
DigitsVal(s) ==
    IF Len(s) = 0 THEN 0
    ELSE 10 * DigitsVal(Sub(s, 1, Len(s) - 1)) + DigitMap[Ch(s, Len(s))]

IsSign(c) == c \in {"+", "-"}

\* The grammar of float(): [sign] digits [. digits] [e [sign] digits] with a
\* digit in the mantissa, or [sign] inf | infinity | nan in any case, all
\* between optional whitespace.

\* the exponent: its digits start at index k of u and reach the end of u
FloatExp(mant, b, u, k, esg) ==
    IF DigitRun(u, k) >= 1 /\ k + DigitRun(u, k) - 1 = Len(u)
    THEN Scaled(mant, b, esg * DigitsVal(Sub(u, k, Len(u))))
    ELSE ValueError

\* the text after a mantissa of value mant with b fraction digits that
\* ends at index m of u
FloatTail(mant, b, u, m) ==
    IF m = Len(u) THEN Scaled(mant, b, 0)
    ELSE IF Ch(u, m + 1) \notin {"e", "E"} THEN ValueError
    ELSE IF Ch(u, m + 2) = "-" THEN FloatExp(mant, b, u, m + 3, -1)
    ELSE IF Ch(u, m + 2) = "+" THEN FloatExp(mant, b, u, m + 3, 1)
    ELSE FloatExp(mant, b, u, m + 2, 1)

\* a mantissa of a integer digits and, after a dot if dot = 1, b fraction
\* digits
FloatMant(sg, u, a, dot, b) ==
    IF a + b < 1 THEN ValueError
    ELSE FloatTail(sg * DigitsVal(Sub(u, 1, a) \o Sub(u, a + 2, a + 1 + b)),
                   b, u, a + dot + b)

\* the text u after the sign, with a leading integer digits
FloatInt(sg, u, a) ==
    IF Ch(u, a + 1) = "." THEN FloatMant(sg, u, a, 1, DigitRun(u, a + 2))
    ELSE FloatMant(sg, u, a, 0, 0)

\* the text u after the sign sg
FloatBody(sg, u, lower) ==
    IF lower \in {"inf", "infinity"} THEN PyInf(sg)
    ELSE IF lower = "nan" THEN PyNaN
    ELSE FloatInt(sg, u, DigitRun(u, 1))

\* the stripped text t
FloatSigned(t) ==
    IF Len(t) > 0 /\ Head(t) = "-" THEN FloatBody(-1, Tail(t), Lower(Tail(t)))
    ELSE IF Len(t) > 0 /\ Head(t) = "+" THEN FloatBody(1, Tail(t), Lower(Tail(t)))
    ELSE FloatBody(1, t, Lower(t))

\* float(s) of a str
ParseFloat(s) == FloatSigned(Strip(s))

RECURSIVE IntStr(_)
\* str(m) of an int m >= 0
IntStr(m) ==
    IF m < 10 THEN Ch(DigitChars, m + 1)
    ELSE IntStr(m \div 10) \o Ch(DigitChars, (m % 10) + 1)

RECURSIVE Zeros(_)
Zeros(k) == IF k <= 0 THEN "" ELSE "0" \o Zeros(k - 1)

\* the digits pad of a value with d fraction digits, the dot put in
FloatFixed(pad, d) ==
    Sub(pad, 1, Len(pad) - d) \o "." \o Sub(pad, Len(pad) - d + 1, Len(pad))

\* the exponent notation of the digits ds with exponent -e
FloatSci(ds, e) ==
    Ch(ds, 1) \o (IF Len(ds) > 1 THEN "." \o Tail(ds) ELSE "")
    \o "e-" \o (IF e < 10 THEN "0" ELSE "") \o IntStr(e)

\* repr of the magnitude with digits ds and d fraction digits: fixed
\* notation, and exponent notation below 1e-4
FloatDigits(ds, d) ==
    IF d = 0 THEN ds \o ".0"
    ELSE IF Len(ds) <= d - 4 THEN FloatSci(ds, d + 1 - Len(ds))
    ELSE FloatFixed(Zeros(d + 1 - Len(ds)) \o ds, d)

\* str(x) of a float x (values from 1e16 up are beyond the integers of this
\* model)
FloatStr(x) ==
    IF x.t = "inf" THEN (IF x.n < 0 THEN "-inf" ELSE "inf")
    ELSE IF x.t = "nan" THEN "nan"
    ELSE IF x.n < 0 THEN "-" \o FloatDigits(IntStr(0 - x.n), x.d)
    ELSE FloatDigits(IntStr(x.n), x.d)

\* x > k for a float x and an int k (False when x is NaN)
FloatGt(x, k) ==
    \/ x.t = "inf" /\ x.n = 1
    \/ x.t = "float" /\ x.n > k * Pow10(x.d)

\* x <= k for a float x and an int k (False when x is NaN)
FloatLe(x, k) ==
    \/ x.t = "inf" /\ x.n = -1
    \/ x.t = "float" /\ x.n <= k * Pow10(x.d)

\* str(v) of a units value
PyStrOf(v) == IF v.t = "str" THEN v.s ELSE FloatStr(v)

----------------------------------------------------------------------------
(* The module's constants.                                                 *)

IGNORE_CODES == {"FORMATION", "SEMESTER", "YEAR", "PAGE", "TOTAL", "UNITS"}

MIN_CODE_LENGTH == 4

MAX_REASONABLE_UNITS == 30

SPECIAL_SUBJECTS ==
    {"NSTP", "THESIS", "ASSEMBLY", "FYDP", "OJT", "PRACTICUM", "INTERNSHIP"}

----------------------------------------------------------------------------
(* clean_text, parse_units, extract_course_code.                           *)

\* clean_text(text): "" for a falsy cell, else the tokens joined by one space
clean_text(text) == IF Len(text) = 0 THEN "" ELSE Join(" ", Split(text))

\* the except branches: 0.0 where float() raised
FloatOrZero(x) == IF x.t = "ValueError" THEN PyFloat(0, 0) ELSE x

\* the second try block: float(clean) if clean else 0.0
UnitsNumber(clean) ==
    IF Len(clean) = 0 THEN PyFloat(0, 0) ELSE FloatOrZero(ParseFloat(clean))

\* the first try block, seg being float(text.split('-')[-1])
UnitsLast(text, seg) ==
    IF seg.t # "ValueError" THEN seg ELSE UnitsNumber(KeepDigitsDots(text))

\* the stripped text, last being the index of its last '-' or 0
UnitsText(text, last) ==
    IF last > 0 THEN UnitsLast(text, ParseFloat(Sub(text, last + 1, Len(text))))
    ELSE UnitsNumber(KeepDigitsDots(text))

\* parse_units(unit_str): always a float
parse_units(unit_str) ==
    IF Len(unit_str) = 0 THEN PyFloat(0, 0)
    ELSE UnitsText(Strip(unit_str), RFindChar(Strip(unit_str), "-"))

\* The course-code pattern [A-Za-z]{2,8}\s?-?\d{3,4}[A-Za-z]? is matched as
\* the regex engine does: the optional parts are greedy, so the
\* alternatives of \s?-? are tried in the order (\s, -), (\s), (-), ();
\* after the digits nothing can fail, so the digits take 4 when 4 are there
\* and the trailing letter is taken when it is there; the letters are
\* greedy, from 8 down to 2.

\* the end of \d{3,4}[A-Za-z]? at index k of s, where dr digits stand, or 0
CodeDigitsEnd(s, k, dr) ==
    IF dr < 3 THEN 0
    ELSE IF dr >= 4 THEN k + 3 + (IF IsAlpha(Ch(s, k + 4)) THEN 1 ELSE 0)
    ELSE k + 2 + (IF IsAlpha(Ch(s, k + 3)) THEN 1 ELSE 0)

\* the end of the tail at index j of s with sp spaces and hy hyphens, or 0
CodeTailOpt(s, j, sp, hy) ==
    IF (sp = 1 => IsSpace(Ch(s, j))) /\ (hy = 1 => Ch(s, j + sp) = "-")
    THEN CodeDigitsEnd(s, j + sp + hy, DigitRun(s, j + sp + hy))
    ELSE 0

FirstNonZero(a, b, c, d) ==
    IF a # 0 THEN a ELSE IF b # 0 THEN b ELSE IF c # 0 THEN c ELSE d

\* the end of a match of \s?-?\d{3,4}[A-Za-z]? starting at index j of s, or 0
CodeTailEnd(s, j) ==
    FirstNonZero(CodeTailOpt(s, j, 1, 1), CodeTailOpt(s, j, 1, 0),
                 CodeTailOpt(s, j, 0, 1), CodeTailOpt(s, j, 0, 0))

\* the end of the match with the most letters among the counts ok, or 0
CodeLongest(s, i, ok) == IF ok = {} THEN 0 ELSE CodeTailEnd(s, i + Max(ok))

\* the end of a match of the pattern starting at index i of s, or 0
CodeMatchEnd(s, i) ==
    CodeLongest(s, i, {n \in 2..Min({8, LetterRun(s, i)}) : CodeTailEnd(s, i + n) # 0})

\* the leftmost of the starts of a match, with its end
CodeLeftmost(s, starts) ==
    IF starts = {} THEN <<0, 0>>
    ELSE <<Min(starts), CodeMatchEnd(s, Min(starts))>>

\* re.search of the course-code pattern in s: the leftmost match as
\* <<start, end>>, or <<0, 0>>
CodeSearch(s) ==
    CodeLeftmost(s, {i \in 1..Len(s) : IsAlpha(Ch(s, i)) /\ CodeMatchEnd(s, i) # 0})

\* s.find(sub) for a non-empty sub: the first index where it occurs, or 0
Find(s, sub) ==
    FirstOf({i \in 1..(Len(s) - Len(sub) + 1) : Sub(s, i, i + Len(sub) - 1) = sub})

\* s without the n characters from index i (s itself when i is 0)
RemoveAt(s, i, n) ==
    IF i = 0 THEN s ELSE Sub(s, 1, i - 1) \o Sub(s, i + n, Len(s))

\* s.replace(sub, "", 1)
RemoveFirst(s, sub) == RemoveAt(s, Find(s, sub), Len(sub))

\* code[:i] + " " + code[i:], i being the 1-based index
SpaceAt(code, i) == Sub(code, 1, i - 1) \o " " \o Sub(code, i, Len(code))

\* the code left as it was matched
InsertSpaceNowhere(code) == code

\* the code with a space inserted before its first digit
InsertSpace(code) ==
    SpaceAt(code, Min({k \in 1..Len(code) : IsDigit(Ch(code, k))}))

\* the matched text code returned whatever its letters are
CodeOfGroupAnyPrefix(text, normalized, code) ==
    [code |-> IF ~Contains(code, "-") /\ ~Contains(code, " ")
              THEN InsertSpace(code) ELSE code,
     rest |-> Strip(RemoveFirst(normalized, code))]

\* the matched text code: the prefix test, the normalisation of the code
\* and the remaining text
CodeOfGroup(text, normalized, code) ==
    IF Upper(Sub(code, 1, LetterRun(code, 1))) \in IGNORE_CODES
    THEN [code |-> "", rest |-> text]
    ELSE [code |-> IF ~Contains(code, "-") /\ ~Contains(code, " ")
                   THEN InsertSpace(code) ELSE code,
          rest |-> Strip(RemoveFirst(normalized, code))]

\* the result of the search, match being <<start, end>> or <<0, 0>>
CodeOfMatch(text, normalized, match) ==
    IF match[1] = 0 THEN [code |-> "", rest |-> text]
    ELSE CodeOfGroup(text, normalized, Sub(normalized, match[1], match[2]))

\* the first-word test and the search on the normalized text
CodeOfNormalized(text, normalized) ==
    IF Len(normalized) > 0 /\ Upper(Split(normalized)[1]) \in IGNORE_CODES
    THEN [code |-> "", rest |-> text]
    ELSE CodeOfMatch(text, normalized, CodeSearch(normalized))

\* extract_course_code(text): code is "" where the source returns None
\* (the callers only test `if code`, and a matched code is never empty)
extract_course_code(text) ==
    IF Len(text) = 0 THEN [code |-> "", rest |-> ""]
    ELSE CodeOfNormalized(text, Join(" ", Split(text)))

----------------------------------------------------------------------------
(* Rows, tables and the layout classifier.  A row is a sequence of cells,  *)
(* a table a sequence of rows.                                             *)

NonBlank(c) == Len(c) > 0

\* " ".join([str(x) for x in row if x]).lower()
RowText(a_row) == Lower(Join(" ", SelectSeq(a_row, NonBlank)))

\* row[:m] and row[m:]
Slice(a_row, from, to) ==
    LET hi == IF to > Len(a_row) THEN Len(a_row) ELSE to
    IN  IF from > hi THEN <<>> ELSE SubSeq(a_row, from, hi)

\* any(cells)
AnyCell(cells) == \E i \in 1..Len(cells) : NonBlank(cells[i])

\* the tests on the header row with the width tested first
LayoutOfHeaderWidthFirst(headers, header_str) ==
    IF Len(headers) > 8
    THEN [is_split |-> TRUE,
          reason |-> "Wide table with " \o IntStr(Len(headers)) \o " columns"]
    ELSE IF Contains(header_str, "lec") /\ Contains(header_str, "lab")
    THEN [is_split |-> TRUE, reason |-> "Headers contain 'lec' and 'lab'"]
    ELSE IF /\ Contains(header_str, "first semester")
            /\ Contains(header_str, "second semester")
    THEN [is_split |-> TRUE,
          reason |-> "Headers contain 'first semester' and 'second semester'"]
    ELSE [is_split |-> FALSE, reason |-> "Standard stacked layout"]

\* the tests on the header row, header_str being its lower-cased text
LayoutOfHeader(headers, header_str) ==
    IF Contains(header_str, "lec") /\ Contains(header_str, "lab")
    THEN [is_split |-> TRUE, reason |-> "Headers contain 'lec' and 'lab'"]
    ELSE IF /\ Contains(header_str, "first semester")
            /\ Contains(header_str, "second semester")
    THEN [is_split |-> TRUE,
          reason |-> "Headers contain 'first semester' and 'second semester'"]
    ELSE IF Len(headers) > 8
    THEN [is_split |-> TRUE,
          reason |-> "Wide table with " \o IntStr(Len(headers)) \o " columns"]
    ELSE [is_split |-> FALSE, reason |-> "Standard stacked layout"]

\* _detect_layout(table): (is_split, reason)
detect_layout(table) ==
    IF Len(table) = 0 \/ Len(table[1]) = 0
    THEN [is_split |-> FALSE, reason |-> "Empty table"]
    ELSE LayoutOfHeader(table[1], RowText(table[1]))

Record(program, year, semester, code, title, units) ==
    [program |-> program, year |-> year, semester |-> semester,
     code |-> code, title |-> title, units |-> units]

----------------------------------------------------------------------------
(* _parse_split_layout: one iteration of its loop over the rows.           *)

\* SplitYear falling back to year 1 on a row without a marker
SplitYearReset(row_text, year_now) ==
    IF Contains(row_text, "first year") \/ Contains(row_text, "1st year") THEN 1
    ELSE IF Contains(row_text, "second year") \/ Contains(row_text, "2nd year") THEN 2
    ELSE IF Contains(row_text, "third year") \/ Contains(row_text, "3rd year") THEN 3
    ELSE IF Contains(row_text, "fourth year") \/ Contains(row_text, "4th year") THEN 4
    ELSE 1

\* the year-level markers of the split extractor, in the order tested
SplitYear(row_text, year_now) ==
    IF Contains(row_text, "first year") \/ Contains(row_text, "1st year") THEN 1
    ELSE IF Contains(row_text, "second year") \/ Contains(row_text, "2nd year") THEN 2
    ELSE IF Contains(row_text, "third year") \/ Contains(row_text, "3rd year") THEN 3
    ELSE IF Contains(row_text, "fourth year") \/ Contains(row_text, "4th year") THEN 4
    ELSE year_now

\* SplitUnits with the two positions tried in the other order
SplitUnitsNearFirst(side) ==
    IF Len(side) > 2 /\ NonBlank(side[3]) THEN parse_units(side[3])
    ELSE IF Len(side) > 4 /\ NonBlank(side[5]) THEN parse_units(side[5])
    ELSE PyFloat(0, 0)

\* units of a half: position 4 if present and truthy, else position 2
SplitUnits(side) ==
    IF Len(side) > 4 /\ NonBlank(side[5]) THEN parse_units(side[5])
    ELSE IF Len(side) > 2 /\ NonBlank(side[3]) THEN parse_units(side[3])
    ELSE PyFloat(0, 0)

\* the record of a half whose first cell gave the pair ex, if it has a code
SplitRecord(side, program_name, year_now, semester, ex) ==
    IF NonBlank(ex.code)
    THEN <<Record(program_name, year_now, semester, ex.code,
                  IF Len(side) > 1 /\ NonBlank(side[2])
                  THEN clean_text(side[2]) ELSE ex.rest,
                  SplitUnits(side))>>
    ELSE <<>>

\* the records (none or one) of one half of a row
SplitSide(side, program_name, year_now, semester) ==
    IF AnyCell(side) /\ NonBlank(side[1])
    THEN SplitRecord(side, program_name, year_now, semester,
                     extract_course_code(clean_text(side[1])))
    ELSE <<>>

\* the skip test of the split extractor
SplitSkips(row_text) == Contains(row_text, "course no") \/ Contains(row_text, "total")

\* the two halves of a row that is not skipped, year being the year level
\* after its markers
SplitHalves(a_row, mid_point, program_name, year) ==
    [recs |-> SplitSide(Slice(a_row, 1, mid_point), program_name, year,
                        "1st Semester")
              \o SplitSide(Slice(a_row, mid_point + 1, Len(a_row)),
                           program_name, year, "2nd Semester"),
     year |-> year]

\* SplitText with the year markers read before the skip test
SplitTextMarkersFirst(a_row, mid_point, program_name, year_now, row_text) ==
    IF SplitSkips(row_text)
    THEN [recs |-> <<>>, year |-> SplitYear(row_text, year_now)]
    ELSE SplitHalves(a_row, mid_point, program_name,
                     SplitYear(row_text, year_now))

\* a row whose lower-cased text is row_text
SplitText(a_row, mid_point, program_name, year_now, row_text) ==
    IF SplitSkips(row_text)
    THEN [recs |-> <<>>, year |-> year_now]
    ELSE SplitHalves(a_row, mid_point, program_name,
                     SplitYear(row_text, year_now))

\* one row of _parse_split_layout: the records appended and the year after
SplitRow(a_row, mid_point, program_name, year_now) ==
    SplitText(a_row, mid_point, program_name, year_now, RowText(a_row))

----------------------------------------------------------------------------
(* _parse_standard_layout: one iteration of its loop over the rows.        *)

\* the year-level markers of the standard extractor, in the order tested
StandardYear(row_text, year_now) ==
    IF Contains(row_text, "1st year") \/ Contains(row_text, "first year") THEN 1
    ELSE IF Contains(row_text, "2nd year") \/ Contains(row_text, "second year") THEN 2
    ELSE IF Contains(row_text, "3rd year") \/ Contains(row_text, "third year") THEN 3
    ELSE IF Contains(row_text, "4th year") \/ Contains(row_text, "fourth year") THEN 4
    ELSE year_now

\* StandardSem with the summer term stored under the marker's own spelling
StandardSemAsWritten(row_text, sem_now) ==
    IF Contains(row_text, "1st semester") THEN "1st Semester"
    ELSE IF Contains(row_text, "2nd semester") THEN "2nd Semester"
    ELSE IF Contains(row_text, "summer") THEN "summer"
    ELSE sem_now

\* the semester markers of the standard extractor, in the order tested
StandardSem(row_text, sem_now) ==
    IF Contains(row_text, "1st semester") THEN "1st Semester"
    ELSE IF Contains(row_text, "2nd semester") THEN "2nd Semester"
    ELSE IF Contains(row_text, "summer") THEN "Summer"
    ELSE sem_now

HeaderLabels == {"course", "course code", "description", "course description", "units"}

RECURSIVE UnitsScan(_, _)
\* the scan stopping at the first truthy cell whatever its value
UnitsFoundFirstCell(a_row, from, val) == val

\* the break of the scan: val is the parsed cell row[from]
UnitsFound(a_row, from, val) ==
    IF FloatGt(val, 0) THEN val ELSE UnitsScan(a_row, from + 1)

\* the first parsed value > 0 among the truthy cells row[i:] (0-based i is
\* from - 1), or 0.0
UnitsScan(a_row, from) ==
    IF from > Len(a_row) THEN PyFloat(0, 0)
    ELSE IF NonBlank(a_row[from]) THEN UnitsFound(a_row, from, parse_units(a_row[from]))
    ELSE UnitsScan(a_row, from + 1)

\* FirstCellSkips without the guard on the number of cells
FirstCellSkipsAnyWidth(a_row, first_cell, first_cell_lower) ==
    \/ first_cell_lower \in HeaderLabels
    \/ (Len(first_cell) = 0 /\ Len(IF Len(a_row) > 1 THEN clean_text(a_row[2]) ELSE "") = 0)
    \/ Len(first_cell) < 2
    \/ Contains(first_cell_lower, "semester")
    \/ Contains(first_cell_lower, "year")

\* FirstCellSkips without the test on "semester" and "year"
FirstCellSkipsCodesWithMarkers(a_row, first_cell, first_cell_lower) ==
    \/ first_cell_lower \in HeaderLabels
    \/ Len(a_row) < 2
    \/ (Len(first_cell) = 0 /\ Len(IF Len(a_row) > 1 THEN clean_text(a_row[2]) ELSE "") = 0)
    \/ Len(first_cell) < 2

\* the guards of the try block, on the cleaned first cell
FirstCellSkips(a_row, first_cell, first_cell_lower) ==
    \/ first_cell_lower \in HeaderLabels
    \/ Len(a_row) < 2
    \/ (Len(first_cell) = 0 /\ Len(IF Len(a_row) > 1 THEN clean_text(a_row[2]) ELSE "") = 0)
    \/ Len(first_cell) < 2
    \/ Contains(first_cell_lower, "semester")
    \/ Contains(first_cell_lower, "year")

\* the header-label test, on the cleaned first cell
CleanedSkips(a_row, first_cell) == FirstCellSkips(a_row, first_cell, Lower(first_cell))

\* the skips of a standard row, after the context update: the total-number
\* row, the header-label row and the guards inside the try block
StandardSkips(a_row, row_text) ==
    \/ Contains(row_text, "total number")
    \/ CleanedSkips(a_row, IF Len(a_row) > 0 THEN clean_text(a_row[1]) ELSE "")

\* PlainRecord with the title always taken from the leftover text
PlainRecordLeftover(a_row, program_name, year_now, sem_now, second_cell, ex) ==
    <<Record(program_name, year_now, sem_now, ex.code, ex.rest,
             UnitsScan(a_row, 3))>>

\* the record built from the code found in the first cell
PlainRecord(a_row, program_name, year_now, sem_now, second_cell, ex) ==
    <<Record(program_name, year_now, sem_now, ex.code,
             IF NonBlank(second_cell) THEN second_cell ELSE ex.rest,
             UnitsScan(a_row, 3))>>

\* the record built from the code found in the first two cells together,
\* if there is one
MergedRecord(a_row, program_name, year_now, sem_now, re) ==
    IF NonBlank(re.code)
    THEN <<Record(program_name, year_now, sem_now, re.code,
                  IF Len(a_row) > 2 /\ NonBlank(a_row[3])
                  THEN clean_text(a_row[3]) ELSE re.rest,
                  UnitsScan(a_row, IF Len(a_row) > 2 /\ NonBlank(a_row[3])
                                 THEN 4 ELSE 3))>>
    ELSE <<>>

\* MergedRetry without the try on the cells put together as they are
MergedRetrySpaceOnly(a_row, program_name, year_now, sem_now, combined, joined) ==
    MergedRecord(a_row, program_name, year_now, sem_now,
                 extract_course_code(combined))

\* the retry on the joined cells, joined being the pair of the try without
\* a space
MergedRetry(a_row, program_name, year_now, sem_now, combined, joined) ==
    IF NonBlank(joined.code)
    THEN MergedRecord(a_row, program_name, year_now, sem_now, joined)
    ELSE MergedRecord(a_row, program_name, year_now, sem_now,
                      extract_course_code(combined))

\* the cleaned first two cells, ex being the pair found in the first
CellsExtract(a_row, program_name, year_now, sem_now, first_cell, second_cell, ex) ==
    IF NonBlank(ex.code)
    THEN PlainRecord(a_row, program_name, year_now, sem_now,
                     second_cell, ex)
    ELSE MergedRetry(a_row, program_name, year_now, sem_now,
                     first_cell \o " " \o second_cell,
                     extract_course_code(first_cell \o second_cell))

\* the records (none or one) of a standard row that is not skipped
StandardExtract(a_row, program_name, year_now, sem_now) ==
    CellsExtract(a_row, program_name, year_now, sem_now,
                 clean_text(a_row[1]),
                 IF Len(a_row) > 1 THEN clean_text(a_row[2]) ELSE "",
                 extract_course_code(clean_text(a_row[1])))

\* a row whose lower-cased text is row_text, year and sem being the context
\* after its markers
StandardMarked(a_row, program_name, row_text, year, sem) ==
    [recs |-> IF StandardSkips(a_row, row_text) THEN <<>>
              ELSE StandardExtract(a_row, program_name, year, sem),
     year |-> year, sem |-> sem]

\* StandardText with the skip tests made before the markers are read
StandardTextSkipsFirst(a_row, program_name, year_now, sem_now, row_text) ==
    IF StandardSkips(a_row, row_text)
    THEN [recs |-> <<>>, year |-> year_now, sem |-> sem_now]
    ELSE StandardMarked(a_row, program_name, row_text,
                        StandardYear(row_text, year_now),
                        StandardSem(row_text, sem_now))

\* a row whose lower-cased text is row_text
StandardText(a_row, program_name, year_now, sem_now, row_text) ==
    StandardMarked(a_row, program_name, row_text,
                   StandardYear(row_text, year_now),
                   StandardSem(row_text, sem_now))

\* one row of _parse_standard_layout: the records appended and the context
\* after.  No statement of the try block raises on a row of str/None cells
\* (every index is guarded by a length test), so its handler is not reached.
StandardRow(a_row, program_name, year_now, sem_now) ==
    StandardText(a_row, program_name, year_now, sem_now, RowText(a_row))

----------------------------------------------------------------------------
(* post_process_rows.                                                      *)

RECURSIVE SpaceRun(_, _)
\* the number of consecutive \s characters of s from index i
SpaceRun(s, i) ==
    IF i > Len(s) \/ ~IsSpace(Ch(s, i)) THEN 0 ELSE 1 + SpaceRun(s, i + 1)

\* word \s+ at index i of s: the index after the whitespace, or 0
WordSpaces(s, i, word) ==
    IF Sub(s, i, i + Len(word) - 1) = word /\ SpaceRun(s, i + Len(word)) >= 1
    THEN i + Len(word) + SpaceRun(s, i + Len(word))
    ELSE 0

\* \d{4} at index j of l, j being the index after a matched word or 0
YearAt(l, j) == j # 0 /\ DigitRun(l, j) >= 4

\* a match of one of the four alternatives of HEADER_REGEX in the
\* lower-cased text l; "curriculum\s+effective\s+\d{4}" is written out
\* although every text it matches holds a match of "effective\s+\d{4}"
HeaderMatch(l) ==
    \E i \in 1..Len(l) :
        \/ YearAt(l, WordSpaces(l, i, "effective"))
        \/ YearAt(l, WordSpaces(l, i, "revised"))
        \/ /\ WordSpaces(l, i, "curriculum") # 0
           /\ YearAt(l, WordSpaces(l, WordSpaces(l, i, "curriculum"), "effective"))
        \/ /\ WordSpaces(l, i, "semester") # 0
           /\ YearAt(l, WordSpaces(l, WordSpaces(l, i, "semester"), "sy"))

\* HEADER_REGEX.search(s): with re.IGNORECASE, so on the lower-cased text
HeaderSearch(s) == HeaderMatch(Lower(s))

\* is_special_subject comparing the code as written, without upper-casing
is_special_subject_cased(code_str) ==
    /\ Len(code_str) > 0
    /\ \E special \in SPECIAL_SUBJECTS : Contains(code_str, special)

\* _is_special_subject(code_str)
is_special_subject(code_str) ==
    /\ Len(code_str) > 0
    /\ \E special \in SPECIAL_SUBJECTS : Contains(Upper(code_str), special)

\* the code pattern with 2 to 5 letters
ValidCodeFiveLetters(code) ==
    \E n \in 2..5, sp \in 0..1, hy \in 0..1, d \in 1..5, t \in 0..1 :
        /\ n + sp + hy + d + t = Len(code)
        /\ LetterRun(code, 1) >= n
        /\ (sp = 1 => IsSpace(Ch(code, n + 1)))
        /\ (hy = 1 => Ch(code, n + sp + 1) = "-")
        /\ DigitRun(code, n + sp + hy + 1) >= d
        /\ (t = 1 => IsAlpha(Ch(code, n + sp + hy + d + 1)))

\* VALID_CODE_PATTERN.match(code): ^[A-Za-z]{2,6}\s?-?\d{1,5}[A-Za-z]?$ ($ also
\* matches before a final newline, which a stripped code never has)
ValidCode(code) ==
    \E n \in 2..6, sp \in 0..1, hy \in 0..1, d \in 1..5, t \in 0..1 :
        /\ n + sp + hy + d + t = Len(code)
        /\ LetterRun(code, 1) >= n
        /\ (sp = 1 => IsSpace(Ch(code, n + 1)))
        /\ (hy = 1 => Ch(code, n + sp + 1) = "-")
        /\ DigitRun(code, n + sp + hy + 1) >= d
        /\ (t = 1 => IsAlpha(Ch(code, n + sp + hy + d + 1)))

\* \w
IsWord(c) == IsAlpha(c) \/ IsDigit(c) \/ c = "_"

\* _contains_year(text): re.search(r'\b(19|20)\d{2}\b', text)
contains_year(text) ==
    \E i \in 1..(Len(text) - 3) :
        /\ Sub(text, i, i + 1) \in {"19", "20"}
        /\ IsDigit(Ch(text, i + 2)) /\ IsDigit(Ch(text, i + 3))
        /\ ~IsWord(Ch(text, i - 1))
        /\ ~IsWord(Ch(text, i + 4))

\* the header-bleed test looking at the code only
HeaderBleedCodeOnly(a_row) == HeaderSearch(Strip(a_row.code))

\* the header-bleed test of a row
HeaderBleed(a_row) == HeaderSearch(Strip(a_row.code)) \/ HeaderSearch(Strip(a_row.title))

\* the code test dropping only a code that is short and holds a year
CodeRejectedShortAndYear(code) ==
    /\ ~is_special_subject(code)
    /\ ~ValidCode(code)
    /\ (Len(code) < MIN_CODE_LENGTH /\ contains_year(code))

\* the code test on the stripped code
CodeRejected(code) ==
    /\ ~is_special_subject(code)
    /\ ~ValidCode(code)
    /\ (Len(code) < MIN_CODE_LENGTH \/ contains_year(code))

\* the code test of a row: TRUE when the row is dropped for its code
InvalidCode(a_row) == CodeRejected(Strip(a_row.code))

\* float(str(units_raw).replace(',', '').strip()), or ValueError
UnitsFloat(a_row) == ParseFloat(Strip(RemoveCommas(PyStrOf(a_row.units))))

\* the units test with the limit one unit lower
TooLargeAbove29(units_val) ==
    units_val.t # "ValueError" /\ FloatGt(units_val, MAX_REASONABLE_UNITS - 1)

\* units_val > MAX_REASONABLE_UNITS, when the parse did not raise
TooLarge(units_val) ==
    units_val.t # "ValueError" /\ FloatGt(units_val, MAX_REASONABLE_UNITS)

\* the units test of a row: TRUE when the row is dropped for its units
AbsurdUnits(a_row) == TooLarge(UnitsFloat(a_row))

\* WithUnits storing the stripped code as well
WithUnitsAndCode(a_row, units_val) ==
    IF units_val.t # "ValueError"
    THEN [a_row EXCEPT !.units = units_val, !.code = Strip(a_row.code)] ELSE a_row

\* row["units"] = units_val, when the parse did not raise
WithUnits(a_row, units_val) ==
    IF units_val.t # "ValueError" THEN [a_row EXCEPT !.units = units_val] ELSE a_row

\* the row as appended to cleaned_rows: units replaced by the float when
\* the parse succeeds, kept as it is when it raises ValueError
Cleaned(a_row) == WithUnits(a_row, UnitsFloat(a_row))

RECURSIVE post_process_rows(_)
\* post_process_rows(rows): the loop over the rows, in order
post_process_rows(rows) ==
    IF Len(rows) = 0 THEN rows
    ELSE (IF HeaderBleed(Head(rows)) \/ InvalidCode(Head(rows))
             \/ AbsurdUnits(Head(rows))
          THEN <<>> ELSE <<Cleaned(Head(rows))>>)
         \o post_process_rows(Tail(rows))

----------------------------------------------------------------------------
(* Bounds and inputs.                                                      *)

\* stream input: pages, tables and rows of one document
MaxPages == 2
MaxTables == 2
MaxRows == 2
\* whole-document input: pages of a document and tables of a page
MaxDocPages == 2
MaxDocTables == 1
\* rows handed to post_process_rows
MaxInput == 2
\* rows of the table of a one-table document
MaxTableRows == 2
\* the calls of one function on one argument
MaxRepeat == 2

\* the calls main submits to its worker pool
MaxTasks == 3

\* the names mkstemp chooses among
MaxTempNames == 2

\* the default of the CURRICULUM_CONCURRENCY setting: the pool's threads
CURRICULUM_CONCURRENCY == 2

program_name == "P"

\* the header row of a side-by-side table: 10 columns, lecture and lab
WideHeader ==
    <<"Course No", "Title", "Lec", "Lab", "Units",
      "Course No", "Title", "Lec", "Lab", "Units">>

\* The rows a table is drawn from.  Any row may come first (table[0]) and
\* so decide the layout and the midpoint of its table.
RowPool ==
    { <<>>,
      <<"X">>,
      <<"PHYS 101">>,
      <<"2nd Year", "", "">>,
      <<"2nd Semester", "", "">>,
      <<"3rd Year Summer", "">>,
      <<"ENGL 1101", "English", "3.0">>,
      <<"MATH 101", "First Year Math", "", "3">>,
      <<"ENGL 1", "101", "Lit", "1-3-2">>,
      <<"Total Number of Units", "", "21">>,
      WideHeader,
      <<"CS 101", "Intro", "2", "3", "3", "CS 102", "Data", "3", "0", "4">>,
      <<"Fourth Year 2nd Semester", "", "", "", "", "", "", "", "", "">>,
      <<"BIO 100A Biology", "", "1-3-nan", "", "", "", "", "CHEM 200", "", "31">> }

\* the standard table and the 12-column side-by-side table of the two
\* end-to-end scenarios
StackedTable ==
    << <<"1st Year", "", "">>,
       <<"1st Semester", "", "">>,
       <<"ENGL 1101", "Introduction to English", "3.0">>,
       <<"Total Units", "", "15">> >>

RoboRow ==
    <<"ROBO 1101", "Intro to Robotics", "1", "3", "2", "", "",
      "MATH 1001", "Calculus", "3", "0", "3">>

WideTable ==
    << <<"Course No", "Title", "Lec", "Lab", "Units", "", "",
         "Course No", "Title", "Lec", "Lab", "Units">>,
       RoboRow >>

\* the tables a whole document is drawn from
TablePool ==
    { <<>>,
      StackedTable,
      WideTable,
      << <<"2nd Year Summer", "">>, <<"PE 1", "101", "Sports", "2">> >> }

\* the sequences over S of length at most n
SeqsUpTo(S, n) == UNION {[1..k -> S] : k \in 0..n}

\* The records post_process_rows is called on: codes of the canonical
\* shape, special-subject labels, header text and junk; units that are
\* floats, numerals as text, and text that is no numeral.
RecordPool ==
    { Record("P", 1, "1st Semester", "MATH 101", "Calculus", PyFloat(3, 0)),
      Record("P", 1, "2nd Semester", " ENGL 1101 ", "English", PyStr("3")),
      Record("P", 4, "1st Semester", "THESIS", "Thesis Writing", PyStr("NC")),
      Record("P", 4, "Summer", "ojt", "Training", PyFloat(6, 0)),
      Record("P", 4, "2nd Semester", "THESIS", "Revised 2008", PyFloat(3, 0)),
      Record("P", 3, "Summer", "PRACTICUM 1", "Practice", PyFloat(31, 0)),
      Record("P", 1, "1st Semester", "Effective 2019", "", PyFloat(0, 0)),
      Record("P", 2, "1st Semester", "XY", "Junk", PyFloat(1, 0)),
      Record("P", 2, "2nd Semester", "SY 2019-2020", "", PyStr("N/A")),
      Record("P", 2, "1st Semester", "MATH 102", "Algebra", PyStr("1,000")),
      Record("P", 3, "1st Semester", "BIO 100A", "Biology", PyNaN),
      Record("P", 3, "2nd Semester", "CHEM 200", "Chemistry", PyFloat(305, 1)),
      Record("P", 3, "2nd Semester", "PHYS 101", "Physics", PyFloat(30, 0)),
      Record("P", 2, "2nd Semester", "MATH 2001", "Topics", PyStr(" 30 ")),
      Record("P", 2, "Summer", "Elective", "Free Elective", PyStr("N/A")),
      Record("P", 1, "Summer", "AY2019", "Orientation", PyFloat(1, 0)),
      Record("P", 1, "2nd Semester", "HIST 101", "Curriculum EFFECTIVE  2019",
             PyFloat(3, 0)) }

Docs == SeqsUpTo(SeqsUpTo(TablePool, MaxDocTables), MaxDocPages)

\* a one-cell header row that names lecture and lab hours
NarrowHeader == <<"Lec / Lab">>

\* The rows of the one-table documents: side-by-side rows with both
\* halves filled, with blank, zero-valued and missing units cells, narrower
\* and wider than the header, with "total" and a year marker next to course
\* codes; stacked rows for every guard of the standard extractor, with
\* markers in skipped rows and in course rows, with blank and zero cells
\* before the units, and codes broken across the first two cells.
ExtractorRows ==
    { WideHeader,
      NarrowHeader,
      RoboRow,
      <<"CS 101", "Intro", "2", "3", "3", "CS 102", "Data", "3", "0", "4">>,
      <<"PE 101", "Gym", "2", "0", "0", "PE 102", "Swim", "2", "", " ">>,
      <<"NSTP 101", "CWTS", "3", "", "", "NSTP 102", "", "2">>,
      <<"CS 105", "Intro", "3", "CS 106", "Data", "3">>,
      <<"CS 103", "Total Quality 2nd Year", "3", "0", "3",
        "CS 104", "Ethics", "3", "0", "3">>,
      <<"CS 201", "Third Year Seminar", "1", "0", "1", "", "", "", "", "">>,
      <<"2nd Year", "", "">>,
      <<"Total Number of Units Summer", "", "21">>,
      <<"Course Code", "Third Year", "Units">>,
      <<"ENGL 1101", "English", "3.0">>,
      <<"MATH 101", "Fourth Year Math", "", "0", "3">>,
      <<"BIO 100A Biology", "", "N/A", "1-3-2">>,
      <<"ENGL 1", "101", "Lit", "1-3-2">>,
      <<"SocWk", "1130", "", "2">>,
      <<"PA", "GE 101", "Geography", "3">>,
      <<"Hello", "World", "3">>,
      <<"X", "ENGL 1102", "3">>,
      <<"ENGL 1103 Yearly", "Seminar", "3">>,
      <<"", "", "ENGL 1104">>,
      <<"PHYS 101">> }

\* the tables of the one-table documents, the empty table among them
ExtractorTables == SeqsUpTo(ExtractorRows, MaxTableRows)

----------------------------------------------------------------------------
(* parse_curriculum_pdf as a state machine.                                *)
(*                                                                         *)
(* The document is input.  It is either given whole (doc, streaming =      *)
(* FALSE) or unfolds as the parser reads it (streaming = TRUE): the next   *)
(* page, the next table and the next row are then chosen when the loops    *)
(* reach them.  The source reads a table only through table[0] and one     *)
(* pass over its rows, so the two give the same runs.                      *)

VARIABLES
    pc,             \* "start", "pages", "tables", "rows", "done"; "call",
                    \* "returned" for a direct call of post_process_rows
    streaming,      \* whether the document unfolds as it is read
    doc,            \* the document given whole: pages of tables of rows
    page_num,       \* pages begun
    table_num,      \* tables begun on the current page
    row_num,        \* rows of the current table processed
    n_tables,       \* tables begun in the document
    n_rows,         \* rows processed in the document
    header,         \* table[0] of the current table
    is_split,       \* the layout chosen for the current table
    midpoint,       \* len(table[0]) // 2 of the current table
    row,            \* the row of the latest loop iteration
    current_year,   \* parse_curriculum_pdf's context (0, "" before line 531)
    current_sem,
    ext_year,       \* the running extractor's current_year, current_sem
    ext_sem,
    new_data,       \* the running extractor's extracted_data
    extracted_data, \* parse_curriculum_pdf's extracted_data
    outcome,        \* "none", "returned" (line 585) or "error" (line 579)
    validations,    \* calls of post_process_rows made by the parse
    result,         \* the list parse_curriculum_pdf returns
    rows_in,        \* post_process_rows called directly: its argument
    rows_out        \* and its result

\* A function of the parser called on its own, outside a parse.
VARIABLES
    fn,             \* the function called, "none" when there is none
    fn_arg,         \* its argument
    fn_rets         \* what its calls on that argument returned, in order

\* The URL discovery of main_scraper.py.
VARIABLES
    ENABLE_HEAD_PROBE,  \* the module's setting, read from the environment
    head_check_counter, \* head_check_counter['count']
    head_requests,      \* the HEAD requests issued so far
    probe_url,          \* is_pdf_content called on its own: its last url,
    probe_result        \* and what it returned

\* discover_pdf_urls.
VARIABLES
    crawl_pc,       \* "none"; "loop" at the head of the while loop, "links"
                    \* inside the loop over the links of a page, "done"
    pages_to_crawl, \* the queue of <<url, depth>>
    visited,        \* the set of urls fetched
    pdf_urls_set,   \* the set of PDF urls found
    current_url,    \* the page whose links are processed,
    depth,          \* its depth,
    links,          \* and its links not yet processed
    fetched,        \* every GET request so far: its url, depth and success
    pdf_urls        \* the list returned

\* main's worker pool.
VARIABLES
    pool_queue,     \* the urls submitted and not yet taken by a thread
    wpc,            \* each thread's position in download_and_parse_pdf
    wurl,           \* the url each thread is processing
    temp_file,      \* _thread_local.temp_file of each thread, 0 while unset
    disk,           \* what the file of each temp name holds
    parse,          \* the locals of each thread's parse_curriculum_pdf
    returned        \* the results of the calls that returned

fnVars == <<fn, fn_arg, fn_rets>>
headVars == <<ENABLE_HEAD_PROBE, head_check_counter, head_requests>>
probeVars == <<probe_url, probe_result>>
pageVars == <<current_url, depth, links>>
crawlVars == <<crawl_pc, pages_to_crawl, visited, pdf_urls_set, pageVars, fetched, pdf_urls>>
poolVars == <<pool_queue, wpc, wurl, temp_file, disk, parse, returned>>
otherVars == <<fnVars, headVars, probeVars, crawlVars, poolVars>>

vars ==
    <<pc, streaming, doc, page_num, table_num, row_num, n_tables, n_rows,
      header, is_split, midpoint, row, current_year, current_sem, ext_year,
      ext_sem, new_data, extracted_data, outcome, validations, result,
      rows_in, rows_out, otherVars>>

posVars == <<page_num, table_num, row_num, n_tables, n_rows>>
tableVars == <<header, is_split, midpoint>>
ctxVars == <<current_year, current_sem>>
extVars == <<ext_year, ext_sem, new_data>>
endVars == <<outcome, validations, result>>
callVars == <<rows_in, rows_out>>
inputVars == <<streaming, doc>>
\* all that a parse reads or writes
parserVars ==
    <<pc, inputVars, posVars, tableVars, row, ctxVars, extVars,
      extracted_data, endVars, callVars>>

\* nothing read, nothing extracted, nothing returned
Idle ==
    /\ page_num = 0 /\ table_num = 0 /\ row_num = 0 /\ n_tables = 0 /\ n_rows = 0
    /\ header = <<>> /\ is_split = FALSE /\ midpoint = 0 /\ row = <<>>
    /\ current_year = 0 /\ current_sem = ""
    /\ ext_year = 0 /\ ext_sem = "" /\ new_data = <<>>
    /\ extracted_data = <<>>
    /\ outcome = "none" /\ validations = 0 /\ result = <<>>
    /\ rows_out = <<>>

\* no function is called on its own
FnIdle == fn = "none" /\ fn_arg = "" /\ fn_rets = <<>>

\* no HEAD request was issued and is_pdf_content was not called
HeadIdle ==
    ENABLE_HEAD_PROBE = TRUE /\ head_check_counter = 0 /\ head_requests = 0
ProbeIdle == probe_url = "" /\ probe_result = FALSE

\* no page is being processed
PageIdle == current_url = "" /\ depth = 0 /\ links = <<>>

\* discover_pdf_urls is not running
CrawlIdle ==
    /\ crawl_pc = "none" /\ pages_to_crawl = <<>> /\ visited = {}
    /\ pdf_urls_set = {} /\ PageIdle /\ fetched = <<>> /\ pdf_urls = <<>>

\* the worker pool has not started
PoolIdle ==
    /\ pool_queue = <<>> /\ wpc = <<>> /\ wurl = <<>> /\ temp_file = <<>>
    /\ disk = <<>> /\ parse = <<>> /\ returned = {}

\* nothing runs beside the parse
OtherIdle == FnIdle /\ HeadIdle /\ ProbeIdle /\ CrawlIdle /\ PoolIdle

\* parse_curriculum_pdf is entered
ParseStart == pc = "start" /\ Idle /\ rows_in = <<>> /\ OtherIdle

\* a parse of a document that unfolds as it is read
Init == ParseStart /\ streaming = TRUE /\ doc = <<>>

\* a parse of a document given whole
InitDoc == ParseStart /\ streaming = FALSE /\ doc \in Docs

\* a parse of a document of one page with one table
InitTable ==
    ParseStart /\ streaming = FALSE /\ doc \in {<< <<t>> >> : t \in ExtractorTables}

\* post_process_rows is called on a list of records
InitCall ==
    /\ pc = "call" /\ Idle /\ streaming = FALSE /\ doc = <<>> /\ OtherIdle
    /\ rows_in \in SeqsUpTo(RecordPool, MaxInput)

CurPage == doc[page_num]
CurTable == doc[page_num][table_num]

MorePages == IF streaming THEN page_num < MaxPages ELSE page_num < Len(doc)
NoMorePages == IF streaming THEN TRUE ELSE page_num = Len(doc)
NoMoreTables == IF streaming THEN TRUE ELSE table_num = Len(CurPage)
NoMoreRows == IF streaming THEN row_num >= 1 ELSE row_num = Len(CurTable)

\* whether the next table of the page can be an empty one
NextTableEmpty ==
    IF streaming THEN n_tables < MaxTables
    ELSE table_num < Len(CurPage) /\ Len(CurPage[table_num + 1]) = 0

\* the rows that can be table[0] of the next table of the page
NextHeaders ==
    IF streaming
    THEN IF n_tables < MaxTables /\ n_rows < MaxRows THEN RowPool ELSE {}
    ELSE IF table_num < Len(CurPage) /\ Len(CurPage[table_num + 1]) > 0
         THEN {CurPage[table_num + 1][1]} ELSE {}

\* the rows that can be the next row of the current table
NextRows ==
    IF streaming
    THEN IF row_num = 0 THEN {header}
         ELSE IF n_rows < MaxRows THEN RowPool ELSE {}
    ELSE IF row_num < Len(CurTable) THEN {CurTable[row_num + 1]} ELSE {}

\* lines 526-532: pdfplumber.open succeeds; the context is initialised
Open ==
    /\ pc = "start"
    /\ pc' = "pages"
    /\ current_year' = 1
    /\ current_sem' = "1st Semester"
    /\ UNCHANGED <<otherVars, inputVars, posVars, tableVars, row, extVars, extracted_data,
                   endVars, callVars>>

\* lines 534-539: the next page; page.extract_tables returns its tables
BeginPage ==
    /\ pc = "pages" /\ MorePages
    /\ pc' = "tables"
    /\ page_num' = page_num + 1
    /\ table_num' = 0
    /\ UNCHANGED <<otherVars, inputVars, row_num, n_tables, n_rows, tableVars, row, ctxVars,
                   extVars, extracted_data, endVars, callVars>>

\* lines 544-545: an empty table is passed over
SkipTable ==
    /\ pc = "tables" /\ NextTableEmpty
    /\ table_num' = table_num + 1
    /\ n_tables' = n_tables + 1
    /\ UNCHANGED <<pc, otherVars, inputVars, page_num, row_num, n_rows, tableVars, row,
                   ctxVars, extVars, extracted_data, endVars, callVars>>

\* lines 548, 561-571 and 189-190 / 276: the layout of the next table is
\* detected and its extractor is entered with the context as arguments
BeginTable ==
    /\ pc = "tables"
    /\ \E h \in NextHeaders : \E layout \in {detect_layout(<<h>>)} :
        /\ header' = h
        /\ is_split' = layout.is_split
        /\ midpoint' = IF layout.is_split THEN Len(h) \div 2 ELSE 0
    /\ pc' = "rows"
    /\ table_num' = table_num + 1
    /\ n_tables' = n_tables + 1
    /\ row_num' = 0
    /\ ext_year' = current_year
    /\ ext_sem' = current_sem
    /\ new_data' = <<>>
    /\ UNCHANGED <<otherVars, inputVars, page_num, n_rows, row, ctxVars, extracted_data,
                   endVars, callVars>>

\* lines 192-255: one iteration of the loop of _parse_split_layout
SplitStep ==
    /\ pc = "rows" /\ is_split
    /\ \E r \in NextRows :
        \E out \in {SplitRow(r, midpoint, program_name, ext_year)} :
            /\ row' = r
            /\ ext_year' = out.year
            /\ new_data' = new_data \o out.recs
    /\ row_num' = row_num + 1
    /\ n_rows' = n_rows + 1
    /\ UNCHANGED <<pc, otherVars, inputVars, page_num, table_num, n_tables, tableVars,
                   ctxVars, ext_sem, extracted_data, endVars, callVars>>

\* lines 278-398: one iteration of the loop of _parse_standard_layout
StandardStep ==
    /\ pc = "rows" /\ ~is_split
    /\ \E r \in NextRows :
        \E out \in {StandardRow(r, program_name, ext_year, ext_sem)} :
            /\ row' = r
            /\ ext_year' = out.year
            /\ ext_sem' = out.sem
            /\ new_data' = new_data \o out.recs
    /\ row_num' = row_num + 1
    /\ n_rows' = n_rows + 1
    /\ UNCHANGED <<pc, otherVars, inputVars, page_num, table_num, n_tables, tableVars,
                   ctxVars, extracted_data, endVars, callVars>>

\* ReturnedYear with the year the extractor returns dropped by the caller
KeptYear(split, year_before, year_out) == year_before

\* the context parse_curriculum_pdf holds after an extractor returns: the
\* split extractor returns the year only (lines 563-565), the standard
\* one the year and the semester (lines 569-571)
ReturnedYear(split, year_before, year_out) == year_out
ReturnedSem(split, sem_before, sem_out) == IF split THEN sem_before ELSE sem_out

\* lines 257 / 400 and 563-572: the extractor returns; its records are
\* appended and the context it returns is taken over
EndTable ==
    /\ pc = "rows" /\ NoMoreRows
    /\ pc' = "tables"
    /\ extracted_data' = extracted_data \o new_data
    /\ current_year' = ReturnedYear(is_split, current_year, ext_year)
    /\ current_sem' = ReturnedSem(is_split, current_sem, ext_sem)
    /\ UNCHANGED <<otherVars, inputVars, posVars, tableVars, row, extVars, endVars, callVars>>

\* line 543: the tables of the page are exhausted
EndPage ==
    /\ pc = "tables" /\ NoMoreTables
    /\ pc' = "pages"
    /\ UNCHANGED <<otherVars, inputVars, posVars, tableVars, row, ctxVars, extVars,
                   extracted_data, endVars, callVars>>

\* Handler returning the records extracted before the exception
HandlerPartial(data) == data

\* line 579: what the handler returns when data has been extracted so far
Handler(data) == <<>>

\* lines 577-579: pdfplumber.open, page.extract_tables of the next page or
\* the exit of the with block raises; the handler returns []
Except ==
    /\ pc \in {"start", "pages"}
    /\ pc' = "done"
    /\ outcome' = "error"
    /\ result' = Handler(extracted_data)
    /\ UNCHANGED <<otherVars, inputVars, posVars, tableVars, row, ctxVars, extVars,
                   extracted_data, validations, callVars>>

\* lines 582-585: the pages are exhausted; the validator runs once over
\* the whole list and its result is returned
Finish ==
    /\ pc = "pages" /\ NoMorePages
    /\ pc' = "done"
    /\ outcome' = "returned"
    /\ validations' = validations + 1
    /\ result' = post_process_rows(extracted_data)
    /\ UNCHANGED <<otherVars, inputVars, posVars, tableVars, row, ctxVars, extVars,
                   extracted_data, callVars>>

Next ==
    \/ Open
    \/ BeginPage
    \/ SkipTable
    \/ BeginTable
    \/ SplitStep
    \/ StandardStep
    \/ EndTable
    \/ EndPage
    \/ Except
    \/ Finish

Spec == Init /\ [][Next]_vars

SpecDoc == InitDoc /\ [][Next]_vars

SpecTable == InitTable /\ [][Next]_vars

\* lines 434-504: a call of post_process_rows from outside the parse
Call ==
    /\ pc = "call"
    /\ pc' = "returned"
    /\ rows_out' = post_process_rows(rows_in)
    /\ UNCHANGED <<otherVars, inputVars, posVars, tableVars, row, ctxVars, extVars,
                   extracted_data, endVars, rows_in>>

NextCall == Call

SpecCall == InitCall /\ [][NextCall]_vars

----------------------------------------------------------------------------
(* The vocabulary of the properties.                                       *)

\* the context in force: the running extractor's while a table is being
\* read, parse_curriculum_pdf's between tables
CtxYear == IF pc = "rows" THEN ext_year ELSE current_year
CtxSem == IF pc = "rows" THEN ext_sem ELSE current_sem

\* this step processes a row (the row is row')
RowStep == pc = "rows" /\ row_num' = row_num + 1

YearLevels == 1..4
Semesters == {"1st Semester", "2nd Semester", "Summer"}

\* the ways a row names year level k
YearWords ==
    [k \in YearLevels |->
        CASE k = 1 -> {"1st year", "first year"}
          [] k = 2 -> {"2nd year", "second year"}
          [] k = 3 -> {"3rd year", "third year"}
          [] k = 4 -> {"4th year", "fourth year"}]

MarksYear(r, k) == \E w \in YearWords[k] : Contains(RowText(r), w)
HasYearMarker(r) == \E k \in YearLevels : MarksYear(r, k)
HasSemMarker(r) ==
    \E w \in {"1st semester", "2nd semester", "summer"} : Contains(RowText(r), w)

IsPrefix(a, b) == Len(a) <= Len(b) /\ SubSeq(b, 1, Len(a)) = a

RECURSIVE NonEmpty(_)
\* the non-empty ones of a sequence of tables
NonEmpty(tables) ==
    IF Len(tables) = 0 THEN <<>>
    ELSE (IF Len(Head(tables)) = 0 THEN <<>> ELSE <<Head(tables)>>)
         \o NonEmpty(Tail(tables))

RECURSIVE TablesOf(_)
\* the non-empty tables of the pages, in reading order
TablesOf(pages) ==
    IF Len(pages) = 0 THEN <<>>
    ELSE NonEmpty(Head(pages)) \o TablesOf(Tail(pages))

\* the parse of the whole document has returned through line 585
Returned == pc = "done" /\ outcome = "returned"

\* the records collected so far, in order
Collected == extracted_data \o (IF pc = "rows" THEN new_data ELSE <<>>)

\* a and b agree on every field but units
SameButUnits(a, b) ==
    /\ a.program = b.program /\ a.year = b.year /\ a.semester = b.semester
    /\ a.code = b.code /\ a.title = b.title

\* the code holds a special-subject label, in any case
HasSpecialLabel(code) ==
    \E label \in SPECIAL_SUBJECTS : Contains(Upper(code), label)

\* input record i of the direct call is in the output
Kept(i) == \E j \in 1..Len(rows_out) : SameButUnits(rows_out[j], rows_in[i])

----------------------------------------------------------------------------
(* C1, C2: the two end-to-end scenarios (SpecDoc).                         *)

\* C1: when the only table of the document is the standard-layout table of
\* the scenario, the parse returns exactly one record: year 1, "1st
\* Semester", "ENGL 1101", "Introduction to English", units 3.0.
C1_StackedScenario ==
    (Returned /\ TablesOf(doc) = <<StackedTable>>)
        => result = <<Record(program_name, 1, "1st Semester", "ENGL 1101",
                             "Introduction to English", PyFloat(3, 0))>>

C1_Witness ==
    /\ Returned /\ TablesOf(doc) = <<StackedTable>>
    /\ validations = 1 /\ Len(result) = 1

\* C2 as amended: when the only table of the document is the 12-column
\* lecture/lab table of the scenario, the parse returns exactly one record,
\* the left one: "ROBO 1101", "1st Semester", units 2.0 from index 4 of the
\* left half.  The right half starts at column 6 (12 // 2), a blank cell,
\* so "MATH 1001" gives no record.
C2_WideScenarioLeftOnly ==
    (Returned /\ TablesOf(doc) = <<WideTable>>)
        => result = <<Record(program_name, 1, "1st Semester", "ROBO 1101",
                             "Intro to Robotics", PyFloat(2, 0))>>

C2_Witness ==
    /\ Returned /\ TablesOf(doc) = <<WideTable>>
    /\ Len(WideTable[1]) = 12
    /\ Len(result) = 1 /\ result[1].code = "ROBO 1101"

\* C2 as stated: the 12-column table yields exactly two records, the left
\* one "ROBO 1101", "1st Semester", 2.0 and the right one "MATH 1001",
\* "2nd Semester", 3.0.
C2_WideScenarioTwoRecords ==
    (Returned /\ TablesOf(doc) = <<WideTable>>)
        => /\ Len(result) = 2
           /\ result[1].code = "ROBO 1101"
           /\ result[1].semester = "1st Semester"
           /\ result[1].units = PyFloat(2, 0)
           /\ result[2].code = "MATH 1001"
           /\ result[2].semester = "2nd Semester"
           /\ result[2].units = PyFloat(3, 0)

----------------------------------------------------------------------------
(* C3 - C7: the context and the errors of a parse (Spec).                  *)

\* C3: once the context is initialised, the year in force changes only in
\* a step that processes a row whose text holds a year-level marker, and
\* the semester in force only in a step that processes a row of a
\* standard-layout table whose text holds a semester marker; entering a
\* table, leaving it and turning a page change neither.
C3_ContextChangesOnMarkers ==
    [][pc # "start" =>
        /\ (CtxYear' # CtxYear => RowStep /\ HasYearMarker(row'))
        /\ (CtxSem' # CtxSem => RowStep /\ ~is_split /\ HasSemMarker(row'))]_vars

\* a split-layout table on the second page is being read with the
\* semester "Summer" an earlier standard-layout table left, and a marker
\* row of it has moved the year
C3_Witness ==
    /\ pc = "rows" /\ is_split /\ page_num = 2 /\ row_num >= 1
    /\ current_sem = "Summer" /\ ext_sem = "Summer"
    /\ HasYearMarker(row) /\ HasSemMarker(row)
    /\ ext_year # current_year

\* C4 as amended: the year in force decreases only in a step that processes
\* a row whose text holds a marker of the lower year level it moves to.
C4_YearDecreasesOnlyOnMarker ==
    [][CtxYear' < CtxYear => RowStep /\ MarksYear(row', CtxYear')]_vars

\* a row naming a lower year level has moved the year below the year the
\* table started with
C4_Witness ==
    /\ pc = "rows" /\ row_num >= 1
    /\ ext_year < current_year
    /\ MarksYear(row, ext_year)

\* C4 as stated: over the rows processed the year in force never decreases.
C4_YearNeverDecreases == [][CtxYear' >= CtxYear]_vars

\* C5: from the initialisation of the context to the return of the parse
\* the year is in 1..4 and the semester one of the three labels, in
\* parse_curriculum_pdf and in the running extractor; every record collected has its year and semester in these
\* sets, and every record of a split-layout table has "1st Semester" or
\* "2nd Semester".
C5_ContextInRange ==
    /\ (pc \in {"pages", "tables", "rows"} \/ Returned)
          => current_year \in YearLevels /\ current_sem \in Semesters
    /\ pc = "rows" => ext_year \in YearLevels /\ ext_sem \in Semesters
    /\ \A i \in 1..Len(Collected) :
          Collected[i].year \in YearLevels /\ Collected[i].semester \in Semesters
    /\ \A i \in 1..Len(result) :
          result[i].year \in YearLevels /\ result[i].semester \in Semesters
    /\ (pc = "rows" /\ is_split) =>
          \A i \in 1..Len(new_data) :
              new_data[i].semester \in {"1st Semester", "2nd Semester"}

\* a split-layout table has given a record while the semester is "Summer"
C5_Witness ==
    /\ pc = "rows" /\ is_split
    /\ ext_sem = "Summer" /\ ext_year > 1
    /\ Len(new_data) >= 1

C7_EmptyOnErrorOrNothing ==
    pc = "done" =>
        /\ outcome \in {"returned", "error"}
        /\ outcome = "error" => result = <<>> /\ validations = 0
        /\ (outcome = "returned" /\ extracted_data = <<>>) => result = <<>>
        /\ outcome = "returned" => validations = 1

\* an exception ended the parse after records had been extracted
C7_Witness ==
    /\ pc = "done" /\ outcome = "error"
    /\ Len(extracted_data) >= 1 /\ result = <<>>

----------------------------------------------------------------------------
(* C8 - C10: post_process_rows called on a list of records (SpecCall).     *)

\* C8 as stated: the output is no longer than the input, and every record
\* kept whose units were numeric on input (they are then stored as a
\* float; units that are no numeral stay text) has units <= 30.0.
C8_UnitsAtMost30 ==
    pc = "returned" =>
        /\ Len(rows_out) <= Len(rows_in)
        /\ \A j \in 1..Len(rows_out) :
              rows_out[j].units.t # "str"
                  => FloatLe(rows_out[j].units, MAX_REASONABLE_UNITS)

RECURSIVE Embeds(_, _)
\* out is in, with records left out and units possibly turned into floats
Embeds(out, in) ==
    IF Len(out) = 0 THEN TRUE
    ELSE IF Len(in) = 0 THEN FALSE
    ELSE \/ /\ SameButUnits(Head(out), Head(in))
            /\ (Head(out).units = Head(in).units \/ Head(out).units.t # "str")
            /\ Embeds(Tail(out), Tail(in))
         \/ Embeds(out, Tail(in))

\* C9: the output is a subsequence of the input, in the input's order,
\* each record with its program, year, semester, code and title unchanged
\* and its units either unchanged or replaced by a float.
C9_OrderPreservingSubsequence ==
    pc = "returned" => Embeds(rows_out, rows_in)

\* the first of two records was dropped and the second kept, its code
\* as it was, surrounding spaces included, and its units turned from text
\* into a float
C9_Witness ==
    /\ pc = "returned" /\ Len(rows_in) = 2 /\ Len(rows_out) = 1
    /\ SameButUnits(rows_out[1], rows_in[2])
    /\ rows_in[2].code # Strip(rows_in[2].code)
    /\ rows_in[2].units.t = "str" /\ rows_out[1].units.t = "float"

\* C10 as amended: a record whose code holds a special-subject label is
\* kept unless its code or title matches the header pattern or its units
\* parse to a number above 30.0; its code is never a reason to drop it.
C10_SpecialKeptUnlessHeaderOrUnits ==
    pc = "returned" =>
        \A i \in 1..Len(rows_in) :
            (/\ HasSpecialLabel(rows_in[i].code)
             /\ ~HeaderSearch(Strip(rows_in[i].code))
             /\ ~HeaderSearch(Strip(rows_in[i].title))
             /\ ~TooLarge(UnitsFloat(rows_in[i])))
                => Kept(i)

\* a record was kept whose code is a special-subject label in lower case,
\* shorter than the minimum length and not of the canonical shape
C10_Witness ==
    /\ pc = "returned"
    /\ \E i \in 1..Len(rows_in) :
          /\ HasSpecialLabel(rows_in[i].code)
          /\ rows_in[i].code \notin SPECIAL_SUBJECTS
          /\ Len(rows_in[i].code) < MIN_CODE_LENGTH
          /\ ~ValidCode(rows_in[i].code)
          /\ Kept(i)

\* C10 as stated: a record whose code holds a special-subject label is
\* kept unconditionally.
C10_SpecialAlwaysKept ==
    pc = "returned" =>
        \A i \in 1..Len(rows_in) : HasSpecialLabel(rows_in[i].code) => Kept(i)


----------------------------------------------------------------------------
(* C11..C13: the three tests of the validator (SpecCall).                  *)

\* the record passes the header test and the units test, so that only
\* the code test decides whether it is kept
OnlyCodeDecides(r) ==
    /\ ~HeaderSearch(Strip(r.code)) /\ ~HeaderSearch(Strip(r.title))
    /\ ~TooLarge(UnitsFloat(r))

\* what C11 says of a normalised code: no special-subject label, not of
\* the canonical shape, and shorter than 4 characters or holding a
\* stand-alone year 1900-2099
DroppedForCode(code) ==
    /\ ~HasSpecialLabel(code)
    /\ ~ValidCode(code)
    /\ (Len(code) < 4 \/ contains_year(code))

\* C11: a record that passes the header and units tests is dropped if and
\* only if its code holds no special-subject label, is not of the canonical
\* shape, and is shorter than 4 characters or holds a stand-alone 4-digit
\* year 1900-2099; so a code of the canonical shape is kept even when its
\* numeral is such a year, and an odd code of 4 or more characters without
\* a year is kept.
C11_CodeCheckDropsExactly ==
    pc = "returned" =>
        \A i \in 1..Len(rows_in) :
            OnlyCodeDecides(rows_in[i])
                => (~Kept(i) <=> DroppedForCode(Strip(rows_in[i].code)))

\* the call kept "MATH 2001" and an odd code without a year, and dropped
\* a code shorter than 4 characters
C11_Witness ==
    /\ pc = "returned"
    /\ \E i \in 1..Len(rows_in) :
          /\ OnlyCodeDecides(rows_in[i]) /\ ~Kept(i)
          /\ Len(Strip(rows_in[i].code)) < 4
    /\ \E i \in 1..Len(rows_in) :
          /\ Kept(i)
          /\ \/ ValidCode(rows_in[i].code) /\ contains_year(rows_in[i].code)
             \/ /\ ~ValidCode(rows_in[i].code) /\ Len(rows_in[i].code) >= 4
                /\ ~HasSpecialLabel(rows_in[i].code)


\* the words C12 names, each followed by whitespace and four digits
HeaderWords == {"effective", "revised", "curriculum effective", "semester sy"}

\* the text holds, in any case, one of the header words followed by
\* whitespace and four digits
HasHeaderText(s) ==
    \E i \in 1..Len(s), w \in HeaderWords :
        YearAt(Lower(s), WordSpaces(Lower(s), i, w))

\* C12: no record of the output of post_process_rows has a code or a title
\* holding, in any case, a header/footer pattern ("effective", "revised",
\* "curriculum effective" or "semester sy", then whitespace and four
\* digits), whatever its other fields are.
C12_NoHeaderTextInOutput ==
    pc = "returned" =>
        \A j \in 1..Len(rows_out) :
            ~HasHeaderText(rows_out[j].code) /\ ~HasHeaderText(rows_out[j].title)

\* the call dropped one record for the pattern in its title, its code and
\* units passing the other tests, and one record for the pattern in its code
C12_Witness ==
    /\ pc = "returned" /\ Len(rows_in) = 2
    /\ \E i \in 1..2 :
          /\ HasHeaderText(rows_in[i].title) /\ ~HasHeaderText(rows_in[i].code)
          /\ ~DroppedForCode(rows_in[i].code)
          /\ ~TooLarge(UnitsFloat(rows_in[i]))
          /\ ~Kept(i)
    /\ \E i \in 1..2 : HasHeaderText(rows_in[i].code) /\ ~Kept(i)


\* the record passes the header test and the code test, so that only the
\* units test decides whether it is kept
OnlyUnitsDecide(r) ==
    /\ ~HasHeaderText(r.code) /\ ~HasHeaderText(r.title)
    /\ ~DroppedForCode(Strip(r.code))

\* input record i of the direct call is in the output with units u
KeptWithUnits(i, u) ==
    \E j \in 1..Len(rows_out) :
        SameButUnits(rows_out[j], rows_in[i]) /\ rows_out[j].units = u

\* C13: a record whose units, commas removed, do not parse as a number is
\* never dropped because of its units and comes out with its units as they
\* were on input; a record whose units parse to a number not exceeding
\* 30.0, exactly 30.0 included, is kept with that float as its units.
C13_UnitsKeptOrFloat ==
    pc = "returned" =>
        \A i \in 1..Len(rows_in) :
            OnlyUnitsDecide(rows_in[i]) =>
                IF UnitsFloat(rows_in[i]).t = "ValueError"
                THEN KeptWithUnits(i, rows_in[i].units)
                ELSE ~FloatGt(UnitsFloat(rows_in[i]), 30)
                        => KeptWithUnits(i, UnitsFloat(rows_in[i]))

\* the call kept one record with units "N/A" as they were and one record
\* whose units, given as text, parse to exactly 30.0, with the float
C13_Witness ==
    /\ pc = "returned" /\ Len(rows_in) = 2 /\ Len(rows_out) = 2
    /\ \E i \in 1..2 :
          /\ rows_in[i].units = PyStr("N/A") /\ rows_out[i].units = PyStr("N/A")
    /\ \E i \in 1..2 :
          /\ rows_in[i].units.t = "str"
          /\ rows_out[i].units = PyFloat(30, 0)


----------------------------------------------------------------------------
(* C14..C16: one row of the split extractor (SpecTable).                   *)

\* the records the extractor appends in the step
Emitted == SubSeq(new_data', Len(new_data) + 1, Len(new_data'))

\* one iteration of the loop of the split, of the standard extractor
SplitRowStep == RowStep /\ is_split
StandardRowStep == RowStep /\ ~is_split

\* the course code the cell at column c (from 0) of row r yields, "" when
\* the row has no such cell or the cell yields none
CodeAt(r, c) ==
    IF c < Len(r) THEN extract_course_code(clean_text(r[c + 1])).code ELSE ""

\* the code of record rec comes from the cell at column c of row r
CodeFrom(rec, r, c) == CodeAt(r, c) # "" /\ rec.code = CodeAt(r, c)

\* the number of cells of the header row of the table, integer-divided by 2
HeaderMidpoint == Len(CurTable[1]) \div 2

\* C14: in split-layout extraction every record of a row has its code from
\* the cell at column 0 or from the cell at column m, m being the number of
\* cells of the table's header row integer-divided by 2 whatever the
\* row's own length is; a record whose code comes from column 0 is labelled
\* "1st Semester", one whose code comes from column m "2nd Semester", both
\* with the current year.
C14_SplitAtHeaderMidpoint ==
    [][SplitRowStep =>
         \A k \in 1..Len(Emitted) :
            /\ Emitted[k].year = ext_year'
            /\ CodeFrom(Emitted[k], row', 0) \/ CodeFrom(Emitted[k], row', HeaderMidpoint)
            /\ CodeFrom(Emitted[k], row', 0) => Emitted[k].semester = "1st Semester"
            /\ CodeFrom(Emitted[k], row', HeaderMidpoint)
                  => Emitted[k].semester = "2nd Semester"]_vars


\* the half of row r a record of the split extractor is read from, by its
\* label: the cells before column m, or the cells from column m on
HalfOf(rec, r, m) ==
    IF rec.semester = "1st Semester" THEN Slice(r, 1, m) ELSE Slice(r, m + 1, Len(r))

\* the cell at index k (from 0) of a half is there and is not empty
Filled(half, k) == k < Len(half) /\ half[k + 1] # ""

\* the value the cell at index k of a half gives: 0.0 for a cell that is
\* absent or empty
CellUnits(half, k) ==
    IF Filled(half, k) THEN parse_units(half[k + 1]) ELSE PyFloat(0, 0)

\* C15: in split-layout extraction the units of a half's record are taken
\* from the half's cell at index 4 first, falling back to the cell at index
\* 2 if the cell at index 4 is absent, blank or zero-valued (parses to
\* 0.0), and are 0.0 when neither cell gives a value.
C15_UnitsFallBackOnZero ==
    [][SplitRowStep =>
         \A k \in 1..Len(Emitted) :
            Emitted[k].units =
                IF CellUnits(HalfOf(Emitted[k], row', midpoint), 4) # PyFloat(0, 0)
                THEN CellUnits(HalfOf(Emitted[k], row', midpoint), 4)
                ELSE CellUnits(HalfOf(Emitted[k], row', midpoint), 2)]_vars


\* the joined lower-cased text of the row holds "course no" or "total"
HeaderOrTotal(r) ==
    Contains(RowText(r), "course no") \/ Contains(RowText(r), "total")

\* C16: in split-layout extraction a row whose joined lower-cased text
\* holds "course no" or "total" emits no record from either half, even if a
\* half starts with a valid course code, and leaves the current year as it
\* was, even if the row holds a year-level marker.
C16_HeaderAndTotalRowsSkipped ==
    [][SplitRowStep /\ HeaderOrTotal(row')
          => Emitted = <<>> /\ ext_year' = ext_year]_vars

\* a row with "total" in its title was read whose halves both start with a
\* course code and which marks a year level other than the current one:
\* nothing was emitted and the year is as before
C16_Witness ==
    /\ pc = "rows" /\ is_split /\ row_num = 1 /\ midpoint >= 1
    /\ HeaderOrTotal(row)
    /\ CodeAt(row, 0) # "" /\ CodeAt(row, midpoint) # ""
    /\ \E k \in YearLevels : MarksYear(row, k) /\ k # ext_year
    /\ new_data = <<>> /\ ext_year = current_year


----------------------------------------------------------------------------
(* C17..C20: one row of the standard extractor (SpecTable).                *)

\* the text of row r holds the marker of semester label s
MarksSem(r, s) ==
    Contains(RowText(r), IF s = "Summer" THEN "summer" ELSE Lower(s))

\* C17: in standard-layout extraction the year and semester markers of a
\* row are applied whatever becomes of the row: after the step the context
\* is the one the row marks (and the one before, where the row marks none),
\* also when the row is skipped, and a record emitted from the row carries
\* the context as updated by that same row.
C17_MarkersBeforeSkips ==
    [][StandardRowStep =>
         /\ IF HasYearMarker(row') THEN MarksYear(row', ext_year')
                                   ELSE ext_year' = ext_year
         /\ IF HasSemMarker(row') THEN MarksSem(row', ext_sem')
                                  ELSE ext_sem' = ext_sem
         /\ \A k \in 1..Len(Emitted) :
               /\ Emitted[k].year = ext_year'
               /\ Emitted[k].semester = ext_sem']_vars

\* the first row of the table, a total-number row that names the summer
\* term, was skipped and changed the semester; the second row, a course
\* row with a year marker in its title, gave a record that carries the
\* year it marks and the semester of the skipped row
C17_Witness ==
    /\ pc = "rows" /\ ~is_split /\ row_num = 2 /\ row = CurTable[2]
    /\ Contains(RowText(CurTable[1]), "total number")
    /\ MarksSem(CurTable[1], "Summer") /\ current_sem # "Summer"
    /\ \E y \in YearLevels : MarksYear(row, y) /\ y # current_year /\ ext_year = y
    /\ Len(new_data) = 1
    /\ CodeFrom(new_data[1], row, 0)
    /\ new_data[1].year = ext_year /\ new_data[1].semester = "Summer"


\* the normalized cell at column c (from 0) of row r, "" when there is none
CellText(r, c) == IF c < Len(r) THEN clean_text(r[c + 1]) ELSE ""

\* the header labels C18 names
LabelCells == {"course", "course code", "description", "course description", "units"}

\* the six cases of C18, (a) to (f)
Guarded(r) ==
    \/ Contains(RowText(r), "total number")
    \/ Lower(CellText(r, 0)) \in LabelCells
    \/ Len(r) < 2
    \/ CellText(r, 0) = "" /\ CellText(r, 1) = ""
    \/ Len(CellText(r, 0)) < 2
    \/ Contains(Lower(CellText(r, 0)), "semester")
    \/ Contains(Lower(CellText(r, 0)), "year")

\* C18: in standard-layout extraction no record is emitted from a row that
\* holds "total number" in its text, or whose first cell, normalized and
\* lower-cased, is a header label, or that has fewer than 2 cells, or whose
\* first two cells are both blank, or whose first cell has fewer than 2
\* characters, or whose first cell holds "semester" or "year", even when
\* that first cell also holds a valid course code.
C18_GuardedRowsEmitNothing ==
    [][StandardRowStep /\ Guarded(row') => Emitted = <<>>]_vars

\* a row was read whose first cell holds a course code and the word
\* "year", and a following row with a code in its second cell only: no
\* record was emitted
C18_Witness ==
    /\ pc = "rows" /\ ~is_split /\ row_num = 2 /\ new_data = <<>>
    /\ CodeAt(CurTable[1], 0) # ""
    /\ Contains(Lower(CellText(CurTable[1], 0)), "year")
    /\ Len(CellText(row, 0)) < 2 /\ CodeAt(row, 1) # ""


\* the columns (from 0) of row r, from column c on, whose cell holds text
\* that the units parser turns into a strictly positive value
PositiveFrom(r, c) ==
    {i \in c..(Len(r) - 1) : Filled(r, i) /\ FloatGt(CellUnits(r, i), 0)}

\* the first strictly positive value of the units parser over the cells
\* of r from column c on, left to right, or 0.0
FirstPositive(r, c) ==
    IF PositiveFrom(r, c) = {} THEN PyFloat(0, 0)
    ELSE CellUnits(r, Min(PositiveFrom(r, c)))

\* the text the extractor leaves over after the code of a text
Leftover(text) == extract_course_code(text).rest

\* C19: in standard-layout extraction, when the first cell of a row that
\* is not skipped yields a course code, exactly one record is emitted for
\* the row: with that code, with the normalized second cell as its title
\* if that is not blank and the extractor's leftover text otherwise, and
\* with the first strictly positive value of the units parser over the
\* cells from index 2 on as its units, 0.0 if there is none.
C19_OneRecordFromFirstCell ==
    [][StandardRowStep /\ ~Guarded(row') /\ CodeAt(row', 0) # "" =>
         Emitted = <<Record(program_name, ext_year', ext_sem', CodeAt(row', 0),
                            IF CellText(row', 1) # "" THEN CellText(row', 1)
                            ELSE Leftover(CellText(row', 0)),
                            FirstPositive(row', 2))>>]_vars

\* a course row was read whose second cell is blank and whose cell at
\* index 2 is zero-valued: its one record has the leftover text as its
\* title and the positive value of a later cell as its units
C19_Witness ==
    /\ pc = "rows" /\ ~is_split /\ row_num = 1 /\ Len(new_data) = 1
    /\ ~Guarded(row) /\ CodeFrom(new_data[1], row, 0)
    /\ CellText(row, 1) = ""
    /\ new_data[1].title = Leftover(CellText(row, 0)) /\ new_data[1].title # ""
    /\ Filled(row, 2) /\ CellUnits(row, 2) = PyFloat(0, 0)
    /\ FloatGt(new_data[1].units, 0)


\* what the first two cells a and b give together: the pair of the text
\* a b without separator if it has a code, else the pair of a and b joined
\* by a single space
Reassembled(a, b) ==
    IF extract_course_code(a \o b).code # "" THEN extract_course_code(a \o b)
    ELSE extract_course_code(a \o " " \o b)

\* the record C20 describes for the reassembled pair re of row r
ReassembledRecord(r, year, sem, re) ==
    IF re.code = "" THEN <<>>
    ELSE <<Record(program_name, year, sem, re.code,
                  IF Filled(r, 2) THEN CellText(r, 2) ELSE re.rest,
                  FirstPositive(r, IF Filled(r, 2) THEN 3 ELSE 2))>>

\* C20: in standard-layout extraction the first two cells are put together
\* only when the first cell alone yields no code: first without separator
\* and, only if that yields no code, joined by a single space, the first
\* attempt with a code deciding the record; its title is cell 2 if present
\* and not blank, the units scan then starting at cell 3, and otherwise the
\* leftover text, the scan starting at cell 2; if both attempts fail the
\* row emits no record.
C20_CrossCellReassembly ==
    [][StandardRowStep /\ ~Guarded(row') =>
         IF CodeAt(row', 0) # ""
         THEN \A k \in 1..Len(Emitted) : Emitted[k].code = CodeAt(row', 0)
         ELSE Emitted = ReassembledRecord(row', ext_year', ext_sem',
                            Reassembled(CellText(row', 0), CellText(row', 1)))]_vars

\* two rows were read whose first cell has no code: "ENGL 1" / "101" gave
\* "ENGL 1101" with cell 2 as its title and its units from cell 3; the
\* cells of the second row have no code when put together as they are
\* ("PA" / "GE 101" reads "PAGE 101") and gave the code of the two joined
\* by a space
C20_Witness ==
    /\ pc = "rows" /\ ~is_split /\ row_num = 2 /\ Len(new_data) = 2
    /\ CodeAt(CurTable[1], 0) = "" /\ CodeAt(row, 0) = ""
    /\ CellText(CurTable[1], 0) = "ENGL 1" /\ CellText(CurTable[1], 1) = "101"
    /\ new_data[1].code = "ENGL 1101" /\ new_data[1].title = CellText(CurTable[1], 2)
    /\ new_data[1].units = CellUnits(CurTable[1], 3)
    /\ extract_course_code(CellText(row, 0) \o CellText(row, 1)).code = ""
    /\ new_data[2].code =
           extract_course_code(CellText(row, 0) \o " " \o CellText(row, 1)).code

----------------------------------------------------------------------------
(* The functions of the parser called on their own: extract_course_code,   *)
(* parse_units and _detect_layout are pure, so a call is its argument and  *)
(* its result.  The argument is drawn from the pools below when the        *)
(* specification starts, and the function is called on it MaxRepeat times. *)

\* arguments of extract_course_code
CodeTexts ==
    { "", " ", "ENGL 1101 Introduction to English", "MATH1001", "CSc-1100",
      "CSc -1100 Lab", "BIO 100A", "BIO100A Biology", "SocWk 1130",
      "Anthro1201", "cs 101", "  ENGL\t1101 \n Intro  ", "ENGL  1101",
      "Prereq: ENGL 1101 and ENGL 1102", "ENGL 1101 ENGL 1101",
      "ENGL1101 or ENGL 1101", "see MATH1001, MATH1001", "Introduction",
      "AB 12", "A 101", "AB 12345", "ED-1234B", "AB - 123", "AB--123",
      "ABCDEFGH 101", "ABCDEFGHIJ 101", "ABCDEFG 2019", "ABCDEFG2019",
      "ABCDEFG-2019", "ABCDEFGH 2019A", "ABCDEF 2019", "Ab 1999",
      "Practicum 2019", "INTERNSHIP 2020", "ASSEMBLY 2001", "NSTP 1",
      "FORMATION 123", "Formation", "SEMESTER 2019", "semester2019",
      "year 2020", " Year 2020", "Page 101", "PAGE101 of 200", "TOTAL 123",
      "Units 300", "see UNITS 123", "See Page 101 CS 102", "XFORMATION 123",
      "YEARS 2020", "TOTALS 123", "1st YEAR 2020", "Total: 21 CS 101",
      "PA GE 101" }

\* arguments of parse_units
UnitTexts ==
    { "", " ", "3", "3.0", " 3 ", "1-3-2", "1-3-2.5", "3-", "-3", "-", "--",
      "a-b", "1-3-x2", "1-3- 2", "1 - 3 - 2 ", "NC", "N/A", "1.2.3", ".",
      "3.", ".5", "3 units", "(3)", "1,000", "2e3", "1-2e1", "1-3-nan",
      "1-NaN", "1-3-inf", "2-Infinity", "nan", "inf", "1-+2",
      "3.0-1.5.2" }

\* arguments of _detect_layout
LayoutTables ==
    { <<>>, << <<>> >>, << <<>>, <<"Lec", "Lab">> >>,
      << <<"", "", "">> >>,
      << <<"Code", "Title", "Lec", "Lab", "Units">> >>,
      << <<"CODE", "LEC HRS", "", "LAB HRS">>, <<"CS 101", "3", "", "0">> >>,
      << <<"Elective", "Syllabus">> >>,
      << <<"Lec", "Units">> >>,
      << <<"Lab", "Lec">> >>,
      << <<"Collect", "Label">> >>,
      << <<"First Semester", "", "Second Semester">> >>,
      << <<"FIRST", "SEMESTER", "Second  Semester">> >>,
      << <<"First Semester", "Units">> >>,
      << <<"Second Semester", "First Semester">> >>,
      << <<"Code", "Title", "Units">>, <<"Lec", "Lab", "">> >>,
      << <<"", "", "", "", "", "", "", "", "">> >>,
      << <<"", "", "", "", "", "", "", "">> >>,
      << <<"a", "b", "c", "d", "e", "f", "g", "h">> >>,
      << <<"a", "b", "c", "d", "e", "f", "g", "h", "i", "j">> >>,
      << <<"Lec", "Lab", "", "", "", "", "", "", "", "", "">> >>,
      << <<"First Semester", "", "", "", "Second Semester", "", "", "", "">> >>,
      << <<"Lec", "Lab", "First Semester", "Second Semester">> >> }

\* no parse runs
ParserIdle ==
    pc = "none" /\ Idle /\ rows_in = <<>> /\ streaming = FALSE /\ doc = <<>>

\* a function and its argument are chosen
InitFn ==
    /\ ParserIdle /\ HeadIdle /\ ProbeIdle /\ CrawlIdle /\ PoolIdle
    /\ fn_rets = <<>>
    /\ \/ fn = "extract_course_code" /\ fn_arg \in CodeTexts
       \/ fn = "parse_units" /\ fn_arg \in UnitTexts
       \/ fn = "_detect_layout" /\ fn_arg \in LayoutTables

\* lines 89-142: a call of extract_course_code
CallExtract ==
    /\ fn = "extract_course_code"
    /\ Len(fn_rets) < MaxRepeat
    /\ fn_rets' = Append(fn_rets, extract_course_code(fn_arg))
    /\ UNCHANGED <<fn, fn_arg, parserVars, poolVars, headVars, probeVars, crawlVars>>

\* lines 56-86: a call of parse_units
CallUnits ==
    /\ fn = "parse_units"
    /\ Len(fn_rets) < MaxRepeat
    /\ fn_rets' = Append(fn_rets, parse_units(fn_arg))
    /\ UNCHANGED <<fn, fn_arg, parserVars, poolVars, headVars, probeVars, crawlVars>>

\* lines 145-171: a call of _detect_layout
CallDetect ==
    /\ fn = "_detect_layout"
    /\ Len(fn_rets) < MaxRepeat
    /\ fn_rets' = Append(fn_rets, detect_layout(fn_arg))
    /\ UNCHANGED <<fn, fn_arg, parserVars, poolVars, headVars, probeVars, crawlVars>>

NextFn ==
    \/ CallExtract
    \/ CallUnits
    \/ CallDetect

SpecFn == InitFn /\ [][NextFn]_vars

----------------------------------------------------------------------------
(* The URL helpers of main_scraper.py.  A URL is a string of the form      *)
(* scheme://host[path][?query][#fragment]; ports and user names are not    *)
(* in the modelled URLs.                                                   *)

HEAD_CHECK_LIMIT == 50

DOWNLOAD_KEYWORDS ==
    {"curriculum", "prospectus", "download", "course", "checklist", "plan"}

GARBAGE_SUBSTRINGS ==
    {"manual", "handbook", "memo", "calendar", "policy", "policies"}

\* the keywords of is_department_page
DepartmentKeywords ==
    {"/school-", "/college-", "/academics/", "/department", "graduate",
     "undergraduate", "programs", "bachelor"}

\* s.endswith(suffix)
EndsWith(s, suffix) == Sub(s, Len(s) - Len(suffix) + 1, Len(s)) = suffix /\ Len(s) >= Len(suffix)

\* the first index of s that holds one of chars, or 0
FirstAmong(s, chars) == FirstOf({i \in 1..Len(s) : Ch(s, i) \in chars})

\* s before, and s from, its first character among chars
Before(s, at) == IF at = 0 THEN s ELSE Sub(s, 1, at - 1)
From(s, at) == IF at = 0 THEN "" ELSE Sub(s, at, Len(s))

\* the url after "://", "" when it has no scheme and host
UrlRest(url) ==
    IF Find(url, "://") = 0 THEN "" ELSE Sub(url, Find(url, "://") + 3, Len(url))

\* urlparse(url).hostname or "": lower-cased by urlparse
Hostname(url) == Lower(Before(UrlRest(url), FirstAmong(UrlRest(url), {"/", "?", "#"})))

\* the path, query and fragment of rest
AfterHost(rest) == From(rest, FirstAmong(rest, {"/", "?", "#"}))

\* urlparse(url).path
UrlPath(url) ==
    Before(AfterHost(UrlRest(url)), FirstAmong(AfterHost(UrlRest(url)), {"?", "#"}))

\* the domain looked for anywhere in the url
is_addu_domain_in_url(url) == Contains(Lower(url), "addu.edu.ph")

\* is_addu_domain(url)
is_addu_domain(url) == EndsWith(Hostname(url), "addu.edu.ph")

\* any(word in url.lower() for word in words)
AnyIn(words, url_lower) == \E word \in words : Contains(url_lower, word)

\* is_garbage_url(url)
is_garbage_url(url) == AnyIn(GARBAGE_SUBSTRINGS, Lower(url))

\* has_download_keyword(url)
has_download_keyword(url) == AnyIn(DOWNLOAD_KEYWORDS, Lower(url))

\* is_department_page(url)
is_department_page(url) == AnyIn(DepartmentKeywords, Lower(url))

\* What a HEAD request comes to: the Content-Type of the response ("" when
\* the header is missing), or an exception of requests.head.
RequestError == "RequestException"
HeadOutcomes ==
    {"application/pdf", "Application/PDF; qs=0.001", "text/html", "", RequestError}

\* the try block of is_pdf_content once the request is issued
HeadResult(response) ==
    response # RequestError /\ Contains(Lower(response), "application/pdf")

\* urls is_pdf_content is called on
ProbeUrls ==
    { "https://example.com/file.pdf", "https://example.com/file.PDF",
      "https://example.com/file.pdf?v=1", "https://example.com/curriculum-download",
      "https://www.addu.edu.ph/curriculum-page", "https://www.addu.edu.ph/about-us",
      "https://www.addu.edu.ph/view?file=a.pdf", "https://www.addu.edu.ph/a.pdf/",
      "https://www.addu.edu.ph/Course-Checklist#x.pdf" }

----------------------------------------------------------------------------
(* discover_pdf_urls on a small web.  A page is fetched in one step and    *)
(* its links are processed one per step.  The hrefs of the modelled pages  *)
(* are absolute URLs, root-relative paths, the empty string, and one       *)
(* malformed URL on which urljoin raises ValueError.                       *)

BASE_URLS ==
    << "https://www.addu.edu.ph/undergraduate-programs/",
       "https://www.addu.edu.ph/graduate-programs/",
       "https://www.addu.edu.ph/academics/school-of-engineering-and-architecture/",
       "https://www.addu.edu.ph/academics/school-of-nursing/",
       "https://www.addu.edu.ph/academics/school-of-arts-and-sciences/" >>

\* the hrefs of the <a> elements of the page at url, in document order
Links(url) ==
    IF url = BASE_URLS[1]
    THEN << "/curriculum/bscs.pdf", "https://www.addu.edu.ph/college-of-law/",
            "https://evil.example.com/addu.edu.ph/x.pdf", "/student-handbook.pdf",
            "/curriculum-download", "/about-us" >>
    ELSE IF url = BASE_URLS[2]
    THEN << "https://www.addu.edu.ph/curriculum/bscs.pdf",
            "https://www.addu.edu.ph/college-of-law/",
            "https://www.addu.edu.ph/academics/school-of-nursing/",
            "https://www.addu.edu.ph/Policies/Plan.pdf" >>
    ELSE IF url = BASE_URLS[3] THEN << "" >>
    ELSE IF url = BASE_URLS[4]
    THEN << "/nursing/bsn.PDF?v=1", "http://[bad", "/nursing/msn.pdf" >>
    ELSE IF url = BASE_URLS[5] THEN << "https://notaddu.edu.ph/a.pdf" >>
    ELSE IF url = "https://www.addu.edu.ph/college-of-law/"
    THEN << "/law/jd.pdf", "https://www.addu.edu.ph/department-of-x/",
            "https://www.addu.edu.ph/undergraduate-programs/",
            "/curriculum/bscs.pdf" >>
    ELSE IF url = "https://www.addu.edu.ph/department-of-x/"
    THEN << "/x/secret.pdf" >>
    ELSE << >>

\* urljoin raises ValueError on href: a bracket without its partner
Malformed(href) == Contains(href, "[") # Contains(href, "]")

\* scheme://host of url
Origin(url) ==
    Sub(url, 1, Find(url, "://") + 2)
    \o Before(UrlRest(url), FirstAmong(UrlRest(url), {"/", "?", "#"}))

\* urljoin(current, href) for an absolute or a root-relative href
urljoin(current, href) ==
    IF Find(href, "://") # 0 THEN href ELSE Origin(current) \o href

\* the pages of the web
BaseSet == {BASE_URLS[b] : b \in 1..Len(BASE_URLS)}

\* the hrefs of a page that urljoin accepts
Hrefs(page) ==
    {Links(page)[k] : k \in {n \in 1..Len(Links(page)) : ~Malformed(Links(page)[n])}}

\* the URLs that the pages of S link to
LinkedFrom(S) == UNION {{urljoin(page, href) : href \in Hrefs(page)} : page \in S}

\* every URL that a call of is_pdf_content or a crawl can meet: the links
\* of the base pages, their links, and the links of those
KnownUrls ==
    ProbeUrls \cup BaseSet \cup LinkedFrom(BaseSet) \cup LinkedFrom(LinkedFrom(BaseSet))
    \cup LinkedFrom(LinkedFrom(LinkedFrom(BaseSet)))

\* urljoin(page, href) for every link of every page, computed once
Joined == [page \in KnownUrls |-> [href \in Hrefs(page) |-> urljoin(page, href)]]

\* what the helpers say of each of these URLs, computed once; pdf_path is
\* the test path.endswith('.pdf') of is_pdf_content
UrlFacts ==
    [url \in KnownUrls |->
        [addu |-> is_addu_domain(url),
         garbage |-> is_garbage_url(url),
         keyword |-> has_download_keyword(url),
         department |-> is_department_page(url),
         pdf_path |-> EndsWith(Lower(UrlPath(url)), ".pdf")]]

\* the limit test written with > for >=
is_pdf_content_above_limit(url, count, enabled, response) ==
    IF UrlFacts[url].pdf_path
    THEN [result |-> TRUE, count |-> count, head |-> 0]
    ELSE IF ~enabled \/ count > HEAD_CHECK_LIMIT \/ ~UrlFacts[url].keyword
    THEN [result |-> FALSE, count |-> count, head |-> 0]
    ELSE [result |-> HeadResult(response), count |-> count + 1, head |-> 1]

\* is_pdf_content(url, head_check_counter) when the counter holds count,
\* ENABLE_HEAD_PROBE is enabled and a HEAD request would bring response:
\* the result, the counter afterwards and the number of requests issued
is_pdf_content(url, count, enabled, response) ==
    IF UrlFacts[url].pdf_path
    THEN [result |-> TRUE, count |-> count, head |-> 0]
    ELSE IF ~enabled THEN [result |-> FALSE, count |-> count, head |-> 0]
    ELSE IF count >= HEAD_CHECK_LIMIT
    THEN [result |-> FALSE, count |-> count, head |-> 0]
    ELSE IF ~UrlFacts[url].keyword
    THEN [result |-> FALSE, count |-> count, head |-> 0]
    ELSE [result |-> HeadResult(response), count |-> count + 1, head |-> 1]

\* the state of the module when is_pdf_content is called with a new counter
InitProbe ==
    /\ ParserIdle /\ FnIdle /\ ProbeIdle /\ CrawlIdle /\ PoolIdle
    /\ ENABLE_HEAD_PROBE \in BOOLEAN
    /\ head_check_counter = 0
    /\ head_requests = 0

\* lines 241-277: what a call of is_pdf_content on url leaves behind, ret
\* being its result with the counter
ProbeReturns(url, ret) ==
    /\ probe_url' = url
    /\ probe_result' = ret.result
    /\ head_check_counter' = ret.count
    /\ head_requests' = head_requests + ret.head
    /\ UNCHANGED <<ENABLE_HEAD_PROBE, parserVars, poolVars, fnVars, crawlVars>>

\* a call of is_pdf_content with the shared counter
Probe ==
    \E url \in ProbeUrls, response \in HeadOutcomes :
        ProbeReturns(url, is_pdf_content(url, head_check_counter, ENABLE_HEAD_PROBE, response))

SpecProbe == InitProbe /\ [][Probe]_vars

\* the queue holds the base URLs at depth 0
BaseQueue == [i \in 1..Len(BASE_URLS) |-> <<BASE_URLS[i], 0>>]

\* lines 293-304: discover_pdf_urls up to its while loop
InitCrawl ==
    /\ ParserIdle /\ FnIdle /\ ProbeIdle /\ PoolIdle
    /\ ENABLE_HEAD_PROBE \in BOOLEAN
    /\ head_check_counter = 0
    /\ head_requests = 0
    /\ crawl_pc = "loop"
    /\ pages_to_crawl = BaseQueue
    /\ visited = {}
    /\ pdf_urls_set = {}
    /\ PageIdle
    /\ fetched = <<>>
    /\ pdf_urls = <<>>

\* what no step of the crawl changes
crawlFixed == <<ENABLE_HEAD_PROBE, parserVars, poolVars, fnVars, probeVars, pdf_urls>>

\* the page at the head of the queue needs a GET request
ToFetch(url) == url \notin visited /\ UrlFacts[url].addu

\* lines 306-315: a queued page that was visited, or is not on the domain
SkipPage ==
    /\ crawl_pc = "loop" /\ pages_to_crawl # <<>>
    /\ ~ToFetch(pages_to_crawl[1][1])
    /\ pages_to_crawl' = Tail(pages_to_crawl)
    /\ UNCHANGED <<crawl_pc, visited, pdf_urls_set, pageVars, fetched>>
    /\ UNCHANGED <<crawlFixed, head_check_counter, head_requests>>

\* the GET request for the page at the head of the queue is made
Fetching(ok) ==
    /\ crawl_pc = "loop" /\ pages_to_crawl # <<>>
    /\ ToFetch(pages_to_crawl[1][1])
    /\ pages_to_crawl' = Tail(pages_to_crawl)
    /\ visited' = visited \cup {pages_to_crawl[1][1]}
    /\ fetched' = Append(fetched, [url |-> pages_to_crawl[1][1],
                                   depth |-> pages_to_crawl[1][2], ok |-> ok])
    /\ UNCHANGED <<crawlFixed, head_check_counter, head_requests, pdf_urls_set>>

\* lines 317-327, 357-358: the request or raise_for_status raises
FetchError ==
    /\ Fetching(FALSE)
    /\ UNCHANGED <<crawl_pc, pageVars>>

\* lines 317-330: the page is fetched and parsed
FetchPage ==
    /\ Fetching(TRUE)
    /\ crawl_pc' = "links"
    /\ current_url' = pages_to_crawl[1][1]
    /\ depth' = pages_to_crawl[1][2]
    /\ links' = Links(pages_to_crawl[1][1])

\* a link of the current page is being processed
AtLink == crawl_pc = "links" /\ links # <<>>

\* the link is passed over by lines 332-345
Skipped(href) ==
    IF href = "" THEN TRUE
    ELSE \/ ~UrlFacts[Joined[current_url][href]].addu
         \/ UrlFacts[Joined[current_url][href]].garbage

\* lines 331-345: an empty href, a foreign URL or a garbage URL
LinkSkipped ==
    /\ AtLink /\ ~Malformed(links[1]) /\ Skipped(links[1])
    /\ links' = Tail(links)
    /\ UNCHANGED <<crawl_pc, pages_to_crawl, visited, pdf_urls_set, current_url, depth, fetched>>
    /\ UNCHANGED <<crawlFixed, head_check_counter, head_requests>>

\* lines 337, 357-358: urljoin raises, and the rest of the page is dropped
LinkRaises ==
    /\ AtLink /\ Malformed(links[1])
    /\ crawl_pc' = "loop"
    /\ links' = <<>>
    /\ UNCHANGED <<pages_to_crawl, visited, pdf_urls_set, current_url, depth, fetched>>
    /\ UNCHANGED <<crawlFixed, head_check_counter, head_requests>>

\* the elif of line 353 with every depth accepted
ShouldQueueAnyDepth(abs_url, page_depth, seen) ==
    UrlFacts[abs_url].department /\ abs_url \notin seen

\* the elif of line 353
ShouldQueue(abs_url, page_depth, seen) ==
    page_depth < 1 /\ UrlFacts[abs_url].department /\ abs_url \notin seen

\* lines 347-354 for the link abs_url, ret being what is_pdf_content returned
Checked(abs_url, ret) ==
    /\ head_check_counter' = ret.count
    /\ head_requests' = head_requests + ret.head
    /\ pdf_urls_set' = IF ret.result THEN pdf_urls_set \cup {abs_url} ELSE pdf_urls_set
    /\ pages_to_crawl' =
           IF ~ret.result /\ ShouldQueue(abs_url, depth, visited)
           THEN Append(pages_to_crawl, <<abs_url, depth + 1>>)
           ELSE pages_to_crawl

\* lines 331-354: a link that reaches is_pdf_content
LinkChecked ==
    /\ AtLink /\ ~Malformed(links[1]) /\ ~Skipped(links[1])
    /\ \E response \in HeadOutcomes :
           Checked(Joined[current_url][links[1]],
                   is_pdf_content(Joined[current_url][links[1]], head_check_counter,
                                  ENABLE_HEAD_PROBE, response))
    /\ links' = Tail(links)
    /\ UNCHANGED <<crawl_pc, visited, current_url, depth, fetched, crawlFixed>>

\* the loop over the links ends
PageDone ==
    /\ crawl_pc = "links" /\ links = <<>>
    /\ crawl_pc' = "loop"
    /\ UNCHANGED <<pages_to_crawl, visited, pdf_urls_set, pageVars, fetched>>
    /\ UNCHANGED <<crawlFixed, head_check_counter, head_requests>>

RECURSIVE Orders(_)
\* list(S): the elements of a set in some order
Orders(S) ==
    IF S = {} THEN {<<>>}
    ELSE UNION {{<<x>> \o o : o \in Orders(S \ {x})} : x \in S}

\* lines 360-362: the queue is empty and the list is returned
Return ==
    /\ crawl_pc = "loop" /\ pages_to_crawl = <<>>
    /\ crawl_pc' = "done"
    /\ pdf_urls' \in Orders(pdf_urls_set)
    /\ UNCHANGED <<pages_to_crawl, visited, pdf_urls_set, pageVars, fetched>>
    /\ UNCHANGED <<ENABLE_HEAD_PROBE, parserVars, poolVars, fnVars, probeVars, head_check_counter, head_requests>>

NextCrawl ==
    \/ SkipPage
    \/ FetchError
    \/ FetchPage
    \/ LinkSkipped
    \/ LinkRaises
    \/ LinkChecked
    \/ PageDone
    \/ Return

\* discover_pdf_urls runs in one thread and every request has a timeout, so
\* a step that can be taken is taken
SpecCrawl == InitCrawl /\ [][NextCrawl]_vars /\ WF_vars(NextCrawl)

----------------------------------------------------------------------------
(* The course-code pattern stated on its own, for the properties of        *)
(* extract_course_code: a text has the shape of the pattern when it splits *)
(* into 2-8 letters, at most one space, at most one hyphen, 3-4 digits and *)
(* at most one letter.                                                     *)

\* the characters of s from index a to index b are all letters / digits
LettersIn(s, a, b) == \A k \in a..b : IsAlpha(Ch(s, k))
DigitsIn(s, a, b) == \A k \in a..b : IsDigit(Ch(s, k))

\* s splits into n letters, sp spaces, hy hyphens, d digits and l letters
ShapeSplit(s, n, sp, hy, d, l) ==
    /\ Len(s) = n + sp + hy + d + l
    /\ LettersIn(s, 1, n)
    /\ sp = 1 => Ch(s, n + 1) = " "
    /\ hy = 1 => Ch(s, n + sp + 1) = "-"
    /\ DigitsIn(s, n + sp + hy + 1, n + sp + hy + d)
    /\ l = 1 => IsAlpha(Ch(s, Len(s)))

\* s as a whole has the shape of the pattern
CodeShape(s) ==
    \E n \in 2..8, sp \in 0..1, hy \in 0..1, d \in 3..4, l \in 0..1 :
        ShapeSplit(s, n, sp, hy, d, l)

\* the places <<i, j>> of t where a text of that shape stands (a text of
\* that shape has 5 to 15 characters and starts with a letter)
ShapesIn(t) ==
    UNION {{<<i, j>> : j \in {e \in (i + 4)..(i + 14) : CodeShape(Sub(t, i, e))}} :
           i \in {b \in 1..(Len(t) - 4) : IsAlpha(Ch(t, b))}}

\* the leftmost of them, and the longest there; <<0, 0>> when there is none
LeftmostIn(t, places) ==
    IF places = {} THEN <<0, 0>>
    ELSE CHOOSE ij \in places :
             \A o \in places : ij[1] < o[1] \/ (ij[1] = o[1] /\ ij[2] >= o[2])

\* the text of t at place, "" for <<0, 0>>
TextAt(t, place) == Sub(t, place[1], place[2])

\* the place <<i, j>> of the leftmost match in the normalized text
MatchPlace(text) == LeftmostIn(clean_text(text), ShapesIn(clean_text(text)))

\* the leftmost match of the pattern in the whitespace-normalized text,
\* "" when there is none
RawMatch(text) == TextAt(clean_text(text), MatchPlace(text))

\* the leading letters of s
AlphaPrefix(s) == Sub(s, 1, LetterRun(s, 1))

\* the first whitespace-delimited token of text is an ignored word
FirstWordIgnored(text) ==
    Len(Split(text)) > 0 /\ Upper(Split(text)[1]) \in IGNORE_CODES

\* the letters of the leftmost match in text are an ignored word
MatchIgnored(text) ==
    RawMatch(text) # "" /\ Upper(AlphaPrefix(RawMatch(text))) \in IGNORE_CODES

NoCode(rest) == [code |-> "", rest |-> rest]

\* C21: extract_course_code returns no code and the input unchanged when
\* the first token of the input, or the letters of the leftmost match of
\* the pattern, are an ignored word in any letter case, and when nothing
\* matches; it returns no code and the empty string for an empty input; so
\* the letters of a code it returns are never an ignored word.
C21_IgnoredWordsYieldNoCode ==
    fn = "extract_course_code" =>
        \A k \in 1..Len(fn_rets) :
            /\ Len(fn_arg) = 0 => fn_rets[k] = NoCode("")
            /\ FirstWordIgnored(fn_arg) => fn_rets[k] = NoCode(fn_arg)
            /\ MatchIgnored(fn_arg) => fn_rets[k] = NoCode(fn_arg)
            /\ RawMatch(fn_arg) = "" /\ Len(fn_arg) > 0
                   => fn_rets[k] = NoCode(fn_arg)
            /\ fn_rets[k].code # ""
                   => Upper(AlphaPrefix(fn_rets[k].code)) \notin IGNORE_CODES

\* an input whose first token is not an ignored word but whose leftmost
\* match starts with one (in lower or mixed case) was answered by no code
\* and the input as it was, whitespace included
C21_Witness ==
    /\ fn = "extract_course_code"
    /\ Len(fn_rets) = MaxRepeat
    /\ ~FirstWordIgnored(fn_arg)
    /\ MatchIgnored(fn_arg)
    /\ AlphaPrefix(RawMatch(fn_arg)) \notin IGNORE_CODES
    /\ fn_rets[1] = NoCode(fn_arg)

\* a code is returned for text: something matches and no ignored word
\* stands in the way
Matches(text) ==
    RawMatch(text) # "" /\ ~FirstWordIgnored(text) /\ ~MatchIgnored(text)

\* the matched text raw as the code: its letters and the rest parted by one
\* space when raw holds no space and no hyphen, raw itself otherwise
AsCode(raw) ==
    IF Contains(raw, " ") \/ Contains(raw, "-") THEN raw
    ELSE AlphaPrefix(raw) \o " " \o Sub(raw, LetterRun(raw, 1) + 1, Len(raw))

\* the normalized text without the match, trimmed
AroundMatch(text) ==
    Strip(Sub(clean_text(text), 1, MatchPlace(text)[1] - 1)
          \o Sub(clean_text(text), MatchPlace(text)[2] + 1, Len(clean_text(text))))

\* C22: when extract_course_code finds a match that is not ignored, the
\* code it returns is the leftmost match with its letter case kept and one
\* space put before the first digit exactly when the match holds neither a
\* space nor a hyphen, and the remainder is the whitespace-normalized input
\* with the first occurrence of the matched text removed, trimmed.
C22_CodeIsLeftmostMatch ==
    fn = "extract_course_code" /\ Matches(fn_arg) =>
        \A k \in 1..Len(fn_rets) :
            /\ fn_rets[k].code = AsCode(RawMatch(fn_arg))
            /\ fn_rets[k].code # RawMatch(fn_arg)
                   <=> ~Contains(RawMatch(fn_arg), " ")
                       /\ ~Contains(RawMatch(fn_arg), "-")
            /\ fn_rets[k].rest = AroundMatch(fn_arg)
            /\ Find(clean_text(fn_arg), RawMatch(fn_arg)) = MatchPlace(fn_arg)[1]

\* a match without space or hyphen that is not at the start of the text and
\* occurs in it a second time was returned with the space put in, and only
\* its first occurrence is missing from the remainder
C22_Witness ==
    /\ fn = "extract_course_code"
    /\ Len(fn_rets) = MaxRepeat
    /\ Matches(fn_arg)
    /\ MatchPlace(fn_arg)[1] > 1
    /\ fn_rets[1].code # RawMatch(fn_arg)
    /\ Contains(fn_rets[1].rest, RawMatch(fn_arg))

\* the text after the last hyphen of s
LastSegment(s) == Sub(s, RFindChar(s, "-") + 1, Len(s))

\* float() accepts s
Numeric(s) == ParseFloat(s).t # "ValueError"

\* what is left of s after all but digits and points are removed, as a
\* float; 0.0 when nothing is left or what is left is no number
StrippedValue(s) ==
    IF KeepDigitsDots(s) = "" \/ ~Numeric(KeepDigitsDots(s)) THEN PyFloat(0, 0)
    ELSE ParseFloat(KeepDigitsDots(s))

\* the value the unit rules give for a non-empty input s
UnitsByRule(s) ==
    IF Contains(s, "-") /\ Numeric(LastSegment(s)) THEN ParseFloat(LastSegment(s))
    ELSE StrippedValue(s)

\* C23: parse_units returns a number for every input: 0.0 for an empty
\* input, the value of the last hyphen-delimited segment when the input
\* holds a hyphen and that segment is numeric, and in every other case the
\* value of the digits and points of the input, or 0.0 when none remain or
\* they form no number.
C23_UnitsAlwaysANumber ==
    fn = "parse_units" =>
        \A k \in 1..Len(fn_rets) :
            /\ fn_rets[k].t # "nan"
            /\ Len(fn_arg) = 0 => fn_rets[k] = PyFloat(0, 0)
            /\ Len(fn_arg) > 0 => fn_rets[k] = UnitsByRule(fn_arg)

\* the table has no rows, or its header row has no cells
NoHeader(table) == Len(table) = 0 \/ Len(table[1]) = 0

\* the three rules of the split layout on the header row of a table
LecLabRule(table) ==
    Contains(RowText(table[1]), "lec") /\ Contains(RowText(table[1]), "lab")
DualSemRule(table) ==
    /\ Contains(RowText(table[1]), "first semester")
    /\ Contains(RowText(table[1]), "second semester")
WidthRule(table) == Len(table[1]) > 8

\* the reason of the first rule that holds, in the order of the rules
FirstReason(table) ==
    IF LecLabRule(table) THEN "Headers contain 'lec' and 'lab'"
    ELSE IF DualSemRule(table)
    THEN "Headers contain 'first semester' and 'second semester'"
    ELSE IF WidthRule(table)
    THEN "Wide table with " \o IntStr(Len(table[1])) \o " columns"
    ELSE "Standard stacked layout"

\* C24: _detect_layout returns Standard for an empty table or an empty
\* header row; otherwise it returns Split exactly when the header text
\* holds "lec" and "lab", or "first semester" and "second semester", or
\* the header row has more than 8 cells, blank ones counted, with the
\* reason of the first of these rules that holds; a second call on the same
\* table returns the same pair.
C24_LayoutByHeaderRules ==
    fn = "_detect_layout" =>
        \A k \in 1..Len(fn_rets) :
            /\ NoHeader(fn_arg) => ~fn_rets[k].is_split
            /\ ~NoHeader(fn_arg) =>
                   /\ fn_rets[k].is_split
                          <=> \/ LecLabRule(fn_arg)
                              \/ DualSemRule(fn_arg)
                              \/ WidthRule(fn_arg)
                   /\ fn_rets[k].reason = FirstReason(fn_arg)
            /\ fn_rets[k] = fn_rets[1]

\* a header row that satisfies the lecture/lab rule and the width rule was
\* classified twice, both times as split for the lecture/lab reason
C24_Witness ==
    /\ fn = "_detect_layout"
    /\ Len(fn_rets) = 2
    /\ ~NoHeader(fn_arg)
    /\ LecLabRule(fn_arg) /\ WidthRule(fn_arg)
    /\ fn_rets[2] = [is_split |-> TRUE, reason |-> "Headers contain 'lec' and 'lab'"]

\* the numeral of a code: its text from the first digit on
Numeral(code) ==
    Sub(code, FirstOf({k \in 1..Len(code) : IsDigit(Ch(code, k))}), Len(code))

\* s is a 4-digit year from 1900 to 2099 and nothing more
StandAloneYear(s) ==
    Len(s) = 4 /\ DigitsIn(s, 1, 4) /\ Sub(s, 1, 2) \in {"19", "20"}

\* C30: a code returned by extract_course_code with at most 6 leading
\* letters has the shape the validator accepts and is not dropped by the
\* code check of post_process_rows; a code of the extractor that this
\* check drops has 7 or 8 leading letters and a numeral that is a
\* stand-alone 4-digit year from 1900 to 2099.
C30_ExtractorCodesPassValidator ==
    fn = "extract_course_code" =>
        \A k \in 1..Len(fn_rets) :
            fn_rets[k].code # "" =>
                /\ LetterRun(fn_rets[k].code, 1) <= 6
                       => /\ ValidCode(fn_rets[k].code)
                          /\ ~InvalidCode(fn_rets[k])
                /\ InvalidCode(fn_rets[k])
                       => /\ LetterRun(fn_rets[k].code, 1) \in {7, 8}
                          /\ StandAloneYear(Numeral(fn_rets[k].code))

\* a code of 6 letters with a year as its numeral was returned and passes
\* the code check
C30_Witness ==
    /\ fn = "extract_course_code"
    /\ Len(fn_rets) = MaxRepeat
    /\ LetterRun(fn_rets[1].code, 1) = 6
    /\ StandAloneYear(Numeral(fn_rets[1].code))
    /\ ~InvalidCode(fn_rets[1])

\* a code of 7 letters with a year as its numeral was returned and is
\* dropped by the code check
C30_WitnessDropped ==
    /\ fn = "extract_course_code"
    /\ Len(fn_rets) = MaxRepeat
    /\ LetterRun(fn_rets[1].code, 1) = 7
    /\ InvalidCode(fn_rets[1])

----------------------------------------------------------------------------
(* Properties of the URL discovery.                                        *)

\* the path of url ends in .pdf, in any letter case
PdfPath(url) == EndsWith(Lower(UrlPath(url)), ".pdf")

\* a call that may not issue a HEAD request for url
NoProbe(url) ==
    \/ ~ENABLE_HEAD_PROBE
    \/ head_check_counter >= HEAD_CHECK_LIMIT
    \/ ~has_download_keyword(url)

\* the counter and the requests issued are as before the step
NoHead ==
    head_check_counter' = head_check_counter /\ head_requests' = head_requests

\* C26: over the calls of is_pdf_content that share one counter, the
\* counter never exceeds HEAD_CHECK_LIMIT and grows by one with every HEAD
\* request issued, whatever the request comes to; a call on a URL whose
\* path ends in .pdf returns True, and a call with probing disabled, with
\* the counter at the limit, or on a URL without download keyword returns
\* False, all four without a HEAD request and with the counter unchanged.
C26_HeadCounterBounded ==
    [][/\ head_check_counter' <= HEAD_CHECK_LIMIT
       /\ head_requests' - head_requests \in {0, 1}
       /\ head_check_counter' - head_check_counter = head_requests' - head_requests
       /\ PdfPath(probe_url') => probe_result' /\ NoHead
       /\ ~PdfPath(probe_url') /\ NoProbe(probe_url') => ~probe_result' /\ NoHead]_vars

\* the limit was reached by HEAD requests, and the last call, on a URL with
\* a download keyword, returned False
C26_Witness ==
    /\ ENABLE_HEAD_PROBE
    /\ head_check_counter = HEAD_CHECK_LIMIT
    /\ head_requests = HEAD_CHECK_LIMIT
    /\ has_download_keyword(probe_url) /\ ~PdfPath(probe_url)
    /\ ~probe_result

\* the fetched pages that link to url
LinkingPages(url) ==
    {i \in 1..Len(fetched) :
        /\ fetched[i].ok
        /\ \E k \in 1..Len(Links(fetched[i].url)) :
               /\ ~Malformed(Links(fetched[i].url)[k])
               /\ urljoin(fetched[i].url, Links(fetched[i].url)[k]) = url}

\* C27: every URL of the list discover_pdf_urls returns has a host that
\* ends in addu.edu.ph, holds none of the garbage substrings, and stands in
\* the list once, however many pages link to it.
C27_ReturnedUrlsFiltered ==
    crawl_pc = "done" =>
        \A i \in 1..Len(pdf_urls) :
            /\ EndsWith(Hostname(pdf_urls[i]), "addu.edu.ph")
            /\ \A garbage \in GARBAGE_SUBSTRINGS : ~Contains(pdf_urls[i], garbage)
            /\ \A j \in 1..Len(pdf_urls) : pdf_urls[j] = pdf_urls[i] => j = i

\* the crawl returned a list of several URLs, one of them linked from three
\* of the pages it fetched, by an absolute and by a relative link
C27_Witness ==
    /\ crawl_pc = "done"
    /\ Len(pdf_urls) >= 3
    /\ \E i \in 1..Len(pdf_urls) : Cardinality(LinkingPages(pdf_urls[i])) = 3

\* the URLs the base pages link to
LinkedFromBase == LinkedFrom(BaseSet)

\* no URL was requested twice
FetchedOnce ==
    \A i, j \in 1..Len(fetched) : fetched[i].url = fetched[j].url => i = j

\* every request was for a base URL at depth 0, or at depth 1 for a
\* department page that a base page links to
FetchedShallow ==
    \A i \in 1..Len(fetched) :
        \/ fetched[i].depth = 0 /\ fetched[i].url \in BaseSet
        \/ /\ fetched[i].depth = 1
           /\ is_department_page(fetched[i].url)
           /\ fetched[i].url \in LinkedFromBase

\* the step processes a link of a page of depth 1
AtDepthOne == crawl_pc = "links" /\ depth = 1

\* the step is a GET request that failed
FailedFetch ==
    Len(fetched') = Len(fetched) + 1 /\ ~fetched'[Len(fetched')].ok

\* after the step the crawl goes on with the rest of the queue
GoesOn ==
    /\ crawl_pc' = "loop"
    /\ pages_to_crawl' = Tail(pages_to_crawl)
    /\ pdf_urls_set' = pdf_urls_set

\* C28: discover_pdf_urls terminates; it requests every page URL at most
\* once, and only base URLs (depth 0) and department pages linked from a
\* base URL (depth 1); the links of a depth-1 page are never queued; and a
\* failed request only skips its page: the crawl goes on and returns.
C28_CrawlTerminates ==
    /\ [](FetchedOnce /\ FetchedShallow)
    /\ [][/\ AtDepthOne => pages_to_crawl' = pages_to_crawl
          /\ FailedFetch => GoesOn]_vars
    /\ <>(crawl_pc = "done")

\* the crawl returned after a request that failed, a department page
\* fetched at depth 1 that links to another department page, and a base
\* URL met in the queue a second time
C28_Witness ==
    /\ crawl_pc = "done"
    /\ \E i \in 1..Len(fetched) : ~fetched[i].ok
    /\ \E i \in 1..Len(fetched) :
           /\ fetched[i].depth = 1 /\ fetched[i].ok
           /\ \E k \in 1..Len(Links(fetched[i].url)) :
                  is_department_page(urljoin(fetched[i].url, Links(fetched[i].url)[k]))
    /\ Len(fetched) > Len(BASE_URLS)

\* the crawl returned the empty list after every request failed
C28_WitnessAllFailed ==
    /\ crawl_pc = "done"
    /\ Len(fetched) = Len(BASE_URLS)
    /\ \A i \in 1..Len(fetched) : ~fetched[i].ok
    /\ pdf_urls = <<>>

----------------------------------------------------------------------------
(* main's worker pool: download_and_parse_pdf run by the threads of the    *)
(* ThreadPoolExecutor, one url per call.  A thread's steps are the         *)
(* statements of download_and_parse_pdf that touch the temp file or the    *)
(* network; the parse reads the file when it opens it and then processes   *)
(* one table per step, the threads interleaving between the steps.         *)

\* the urls main submits, in order; the first and the third serve the same
\* PDF
PoolUrls ==
    <<"https://www.addu.edu.ph/a.pdf", "https://www.addu.edu.ph/b.pdf",
      "https://www.addu.edu.ph/c.pdf", "https://www.addu.edu.ph/d.pdf">>

Tasks == SubSeq(PoolUrls, 1, MaxTasks)

\* the tables of the PDF behind each url, in reading order: the first
\* document sets the year and semester in its first table and relies on
\* them in its second, the second starts with courses of the initial year
\* and semester
PdfAt(url) ==
    IF url \in {PoolUrls[1], PoolUrls[3]}
    THEN << << <<"2nd Year", "", "">>, <<"2nd Semester", "", "">>,
               <<"ENGL 1101", "English", "3.0">> >>,
            << <<"CS 105", "Intro", "3">> >> >>
    ELSE IF url = PoolUrls[2]
    THEN << << <<"MATH 101", "Calculus", "3">> >>,
            << <<"3rd Year Summer", "">>, <<"PE 1", "101", "Sports", "2">> >> >>
    ELSE << WideTable >>

Workers == 1..CURRICULUM_CONCURRENCY

\* the names mkstemp can choose
TempNames == 1..MaxTempNames

\* One table as parse_curriculum_pdf processes it: the layout from
\* table[0], every row through the extractor, the context the extractor
\* returns.
RECURSIVE ExtractRows(_, _, _, _, _, _, _)
AfterSplitRow(table, mid, k, sem, recs, out) ==
    ExtractRows(table, TRUE, mid, k + 1, out.year, sem, recs \o out.recs)

AfterStandardRow(table, k, recs, out) ==
    ExtractRows(table, FALSE, 0, k + 1, out.year, out.sem, recs \o out.recs)

ExtractRows(table, split, mid, k, year, sem, recs) ==
    IF k > Len(table)
    THEN [recs |-> recs, year |-> year, sem |-> sem]
    ELSE IF split
    THEN AfterSplitRow(table, mid, k, sem, recs,
                       SplitRow(table[k], mid, program_name, year))
    ELSE AfterStandardRow(table, k, recs,
                          StandardRow(table[k], program_name, year, sem))

TableReturns(split, year, sem, out) ==
    [recs |-> out.recs,
     year |-> ReturnedYear(split, year, out.year),
     sem |-> ReturnedSem(split, sem, out.sem)]

WithLayout(table, year, sem, split) ==
    TableReturns(split, year, sem,
             ExtractRows(table, split, IF split THEN Len(table[1]) \div 2 ELSE 0,
                         1, year, sem, <<>>))

ParseTable(table, year, sem) ==
    IF Len(table) = 0
    THEN [recs |-> <<>>, year |-> year, sem |-> sem]
    ELSE WithLayout(table, year, sem, detect_layout(<<table[1]>>).is_split)

\* parse_curriculum_pdf on a document read alone
RECURSIVE ParseTables(_, _, _, _, _)
AfterTable(tables, k, data, out) ==
    ParseTables(tables, k + 1, out.year, out.sem, data \o out.recs)

ParseTables(tables, k, year, sem, data) ==
    IF k > Len(tables)
    THEN [recs |-> data, year |-> year, sem |-> sem]
    ELSE AfterTable(tables, k, data, ParseTable(tables[k], year, sem))

\* the parse of the first k tables of a document read alone
ParsePrefix(tables, k) ==
    ParseTables(SubSeq(tables, 1, k), 1, 1, "1st Semester", <<>>)

ParseAlone(tables) == post_process_rows(ParsePrefix(tables, Len(tables)).recs)

PoolUrlSet == {PoolUrls[i] : i \in 1..Len(PoolUrls)}

\* the memo of ParseTable over the tables of the PDFs served
TableIn(table) ==
    [y \in YearLevels |-> [s \in Semesters |-> ParseTable(table, y, s)]]

TableOut ==
    [url \in PoolUrlSet |-> [k \in 1..Len(PdfAt(url)) |-> TableIn(PdfAt(url)[k])]]

\* the memo of ParsePrefix and of ParseAlone over the PDFs served
Prefix ==
    [url \in PoolUrlSet |-> [k \in 0..Len(PdfAt(url)) |-> ParsePrefix(PdfAt(url), k)]]

Alone == [url \in PoolUrlSet |-> ParseAlone(PdfAt(url))]

\* no parse is open in a thread
NoParse ==
    [pdf |-> "", table_num |-> 0, current_year |-> 1,
     current_sem |-> "1st Semester", extracted_data |-> <<>>]

InitPool ==
    /\ ParserIdle /\ FnIdle /\ HeadIdle /\ ProbeIdle /\ CrawlIdle
    /\ pool_queue = Tasks
    /\ wpc = [w \in Workers |-> "idle"]
    /\ wurl = [w \in Workers |-> ""]
    /\ temp_file = [w \in Workers |-> 0]
    /\ disk = [n \in TempNames |-> "absent"]
    /\ parse = [w \in Workers |-> NoParse]
    /\ returned = {}

poolFixed == <<parserVars, fnVars, headVars, probeVars, crawlVars>>

\* an idle thread takes the next submitted call
Take(w) ==
    /\ wpc[w] = "idle" /\ pool_queue # <<>>
    /\ wurl' = [wurl EXCEPT ![w] = Head(pool_queue)]
    /\ pool_queue' = Tail(pool_queue)
    /\ wpc' = [wpc EXCEPT ![w] = "temp"]
    /\ UNCHANGED <<temp_file, disk, parse, returned, poolFixed>>

\* get_thread_temp_file, first use by the thread: mkstemp creates an empty
\* file under a name no file has
MakeTemp(w) ==
    /\ wpc[w] = "temp" /\ temp_file[w] = 0
    /\ \E name \in TempNames :
        /\ disk[name] = "absent"
        /\ temp_file' = [temp_file EXCEPT ![w] = name]
        /\ disk' = [disk EXCEPT ![name] = "empty"]
    /\ wpc' = [wpc EXCEPT ![w] = "get"]
    /\ UNCHANGED <<pool_queue, wurl, parse, returned, poolFixed>>

\* get_thread_temp_file, later uses: the remembered path
ReuseTemp(w) ==
    /\ wpc[w] = "temp" /\ temp_file[w] # 0
    /\ wpc' = [wpc EXCEPT ![w] = "get"]
    /\ UNCHANGED <<pool_queue, wurl, temp_file, disk, parse, returned, poolFixed>>

\* requests.get and raise_for_status succeed
DownloadOk(w) ==
    /\ wpc[w] = "get"
    /\ wpc' = [wpc EXCEPT ![w] = "write"]
    /\ UNCHANGED <<pool_queue, wurl, temp_file, disk, parse, returned, poolFixed>>

\* they raise: (url, [], e)
DownloadError(w) ==
    /\ wpc[w] = "get"
    /\ returned' = returned \cup {[url |-> wurl[w], pdf |-> "", rows |-> <<>>, error |-> TRUE]}
    /\ wpc' = [wpc EXCEPT ![w] = "cleanup"]
    /\ UNCHANGED <<pool_queue, wurl, temp_file, disk, parse, poolFixed>>

\* open(temp_file, 'wb') and write: the file holds the url's PDF
WriteFile(w) ==
    /\ wpc[w] = "write"
    /\ disk' = [disk EXCEPT ![temp_file[w]] = wurl[w]]
    /\ wpc' = [wpc EXCEPT ![w] = "open"]
    /\ UNCHANGED <<pool_queue, wurl, temp_file, parse, returned, poolFixed>>

\* pdfplumber.open reads the file and the parse starts with its own
\* current_year, current_sem and extracted_data
OpenPdf(w) ==
    /\ wpc[w] = "open" /\ disk[temp_file[w]] \notin {"absent", "empty"}
    /\ parse' = [parse EXCEPT ![w] = [NoParse EXCEPT !.pdf = disk[temp_file[w]]]]
    /\ wpc' = [wpc EXCEPT ![w] = "tables"]
    /\ UNCHANGED <<pool_queue, wurl, temp_file, disk, returned, poolFixed>>

\* pdfplumber.open raises on a missing or empty file: the parse returns []
OpenFails(w) ==
    /\ wpc[w] = "open" /\ disk[temp_file[w]] \in {"absent", "empty"}
    /\ returned' = returned \cup
           {[url |-> wurl[w], pdf |-> "", rows |-> Handler(<<>>), error |-> FALSE]}
    /\ wpc' = [wpc EXCEPT ![w] = "cleanup"]
    /\ UNCHANGED <<pool_queue, wurl, temp_file, disk, parse, poolFixed>>

\* the current_year and current_sem a thread's parse passes to the
\* extractor: the locals of its own invocation
ContextShared(w, p) == [year |-> p[1].current_year, sem |-> p[1].current_sem]

ContextOf(w, p) == [year |-> p[w].current_year, sem |-> p[w].current_sem]

TableParsed(w, p, out) ==
    parse' = [parse EXCEPT ![w] =
                 [p EXCEPT !.table_num = p.table_num + 1,
                           !.current_year = out.year,
                           !.current_sem = out.sem,
                           !.extracted_data = p.extracted_data \o out.recs]]

\* the next table of the document the parse opened
NextTable(w) ==
    /\ wpc[w] = "tables" /\ parse[w].table_num < Len(PdfAt(parse[w].pdf))
    /\ TableParsed(w, parse[w],
                   TableOut[parse[w].pdf][parse[w].table_num + 1]
                           [ContextOf(w, parse).year][ContextOf(w, parse).sem])
    /\ UNCHANGED <<pool_queue, wpc, wurl, temp_file, disk, returned, poolFixed>>

\* the parse returns post_process_rows(extracted_data): (url, rows, None)
ParseReturns(w) ==
    /\ wpc[w] = "tables" /\ parse[w].table_num = Len(PdfAt(parse[w].pdf))
    /\ returned' = returned \cup
           {[url |-> wurl[w], pdf |-> parse[w].pdf,
             rows |-> post_process_rows(parse[w].extracted_data), error |-> FALSE]}
    /\ parse' = [parse EXCEPT ![w] = NoParse]
    /\ wpc' = [wpc EXCEPT ![w] = "cleanup"]
    /\ UNCHANGED <<pool_queue, wurl, temp_file, disk, poolFixed>>

\* cleanup_thread_temp_file: the file is removed if it exists, the path
\* stays remembered
Cleanup(w) ==
    /\ wpc[w] = "cleanup"
    /\ disk' = [disk EXCEPT ![temp_file[w]] = "absent"]
    /\ wpc' = [wpc EXCEPT ![w] = "idle"]
    /\ wurl' = [wurl EXCEPT ![w] = ""]
    /\ UNCHANGED <<pool_queue, temp_file, parse, returned, poolFixed>>

NextPool ==
    \E w \in Workers :
        \/ Take(w)
        \/ MakeTemp(w)
        \/ ReuseTemp(w)
        \/ DownloadOk(w)
        \/ DownloadError(w)
        \/ WriteFile(w)
        \/ OpenPdf(w)
        \/ OpenFails(w)
        \/ NextTable(w)
        \/ ParseReturns(w)
        \/ Cleanup(w)

SpecPool == InitPool /\ [][NextPool]_vars

----------------------------------------------------------------------------
(* C29: the temp file path of a worker thread.                             *)

\* the two threads remember the same path
SamePath(a, b) == a # b /\ temp_file[a] # 0 /\ temp_file[a] = temp_file[b]

\* C29: at no time do two worker threads hold the same temp file path,
\* also after a thread's cleanup has removed its file and the thread uses
\* its remembered path again.
C29_TempPathUniquePerThread ==
    \A a, b \in Workers : ~SamePath(a, b)

----------------------------------------------------------------------------
(* C25: the year and semester context of concurrent parses.                *)

\* the parse open in the thread is where the parse of its document alone
\* is after as many tables
AsAlonePrefix(p) ==
    /\ p.extracted_data = Prefix[p.pdf][p.table_num].recs
    /\ p.current_year = Prefix[p.pdf][p.table_num].year
    /\ p.current_sem = Prefix[p.pdf][p.table_num].sem

\* the urls that serve the same tables
SamePdf == [u \in PoolUrlSet |-> [v \in PoolUrlSet |-> PdfAt(u) = PdfAt(v)]]

\* the results of parses that read a document
Parsed == {r \in returned : r.pdf # ""}

C25_WitnessTwice ==
    \E r1, r2 \in Parsed : r1.url # r2.url /\ SamePdf[r1.pdf][r2.pdf]

====
